---------------------------- MODULE Spec2Model ----------------------------
(***************************************************************************)
(* A model of the crawler core of Avec_M.GPT: the date and URL helpers     *)
(* (utils/date_parse.py, scraping/wechat.py), the relevance filter and the *)
(* orchestration of the three channels (scraping/manager.py), with the     *)
(* per-article resolution of the pattern channel (scraping/patterns.py).   *)
(*                                                                         *)
(* Python strings are TLA+ strings; TLC evaluates Len, SubSeq and \o on    *)
(* them, so parsing and formatting are computed character by character.    *)
(* None and "" are both the empty string: the code reads every optional    *)
(* string by truthiness (not s, s or "") before anything else.             *)
(***************************************************************************)
EXTENDS Naturals, Integers, Sequences, FiniteSets, TLC

(***************************************************************************)
(* Python str primitives                                                   *)
(***************************************************************************)

\* s[i-1:j] of Python, 1-based and clamped like a Python slice.
Slice(s, i, j) ==
    IF i > j \/ i > Len(s) THEN ""
    ELSE SubSeq(s, i, IF j > Len(s) THEN Len(s) ELSE j)

\* s.find(sub) from position i, 1-based; 0 when sub does not occur.
RECURSIVE FindFrom(_, _, _)
FindFrom(s, sub, i) ==
    IF i + Len(sub) - 1 > Len(s) THEN 0
    ELSE IF Slice(s, i, i + Len(sub) - 1) = sub THEN i
    ELSE FindFrom(s, sub, i + 1)

\* sub in s
Contains(s, sub) == FindFrom(s, sub, 1) > 0

\* s.startswith(p), s.endswith(p)
StartsWith(s, p) == Slice(s, 1, Len(p)) = p
EndsWith(s, p) == Len(p) <= Len(s) /\ Slice(s, Len(s) - Len(p) + 1, Len(s)) = p

\* s.split(sep, 1)[0]
BeforeFirst(s, sep) ==
    LET k == FindFrom(s, sep, 1) IN IF k = 0 THEN s ELSE Slice(s, 1, k - 1)

\* s.split(sep, 1)[1], "" when sep does not occur
AfterFirst(s, sep) ==
    LET k == FindFrom(s, sep, 1) IN IF k = 0 THEN "" ELSE Slice(s, k + Len(sep), Len(s))

\* s.split(sep): the sequence of the pieces
RECURSIVE Split(_, _)
Split(s, sep) ==
    LET k == FindFrom(s, sep, 1)
    IN  IF k = 0 THEN <<s>>
        ELSE <<Slice(s, 1, k - 1)>> \o Split(Slice(s, k + Len(sep), Len(s)), sep)

UpperLetters == "ABCDEFGHIJKLMNOPQRSTUVWXYZ"
LowerLetters == "abcdefghijklmnopqrstuvwxyz"
Digits == "0123456789"

\* str.lower() on one character, then on a string
LowerChar(c) ==
    LET k == FindFrom(UpperLetters, c, 1)
    IN  IF Len(c) = 1 /\ k > 0 THEN Slice(LowerLetters, k, k) ELSE c

RECURSIVE Lower(_)
Lower(s) ==
    IF Len(s) = 0 THEN "" ELSE LowerChar(Slice(s, 1, 1)) \o Lower(Slice(s, 2, Len(s)))

\* str.strip()
RECURSIVE LStrip(_)
LStrip(s) ==
    IF Len(s) > 0 /\ Slice(s, 1, 1) = " " THEN LStrip(Slice(s, 2, Len(s))) ELSE s

RECURSIVE RStrip(_)
RStrip(s) ==
    IF Len(s) > 0 /\ Slice(s, Len(s), Len(s)) = " "
    THEN RStrip(Slice(s, 1, Len(s) - 1)) ELSE s

Strip(s) == RStrip(LStrip(s))

IsDigit(c) == Len(c) = 1 /\ Contains(Digits, c)

RECURSIVE AllDigits(_)
AllDigits(s) ==
    Len(s) = 0 \/ (IsDigit(Slice(s, 1, 1)) /\ AllDigits(Slice(s, 2, Len(s))))

\* int(s) of a digit string
RECURSIVE ToInt(_)
ToInt(s) ==
    IF Len(s) = 0 THEN 0
    ELSE 10 * ToInt(Slice(s, 1, Len(s) - 1))
         + (FindFrom(Digits, Slice(s, Len(s), Len(s)), 1) - 1)

(***************************************************************************)
(* utils/date_parse.py: datetime.strptime(s, "%Y-%m-%d") and within_range  *)
(***************************************************************************)

IsLeap(y) == (y % 4 = 0 /\ y % 100 # 0) \/ y % 400 = 0

DaysInMonth(y, m) ==
    IF m = 2 THEN (IF IsLeap(y) THEN 29 ELSE 28)
    ELSE IF m \in {4, 6, 9, 11} THEN 30 ELSE 31

\* datetime.strptime(s, "%Y-%m-%d").date(): [ok |-> FALSE] is ValueError.
\* %Y is four digits, %m is 1[0-2]|0[1-9]|[1-9], %d is 3[01]|[12]\d|0[1-9]|[1-9];
\* nothing may precede or follow, and the day must exist in the month.
NoDate == [ok |-> FALSE, y |-> 0, m |-> 0, d |-> 0]

\* the date of year y, month m, day d, when the calendar has it
DateOf(y, m, d) ==
    IF y >= 1 /\ m \in 1..12 /\ d >= 1 /\ d <= DaysInMonth(y, m)
    THEN [ok |-> TRUE, y |-> y, m |-> m, d |-> d]
    ELSE NoDate

\* the date of the fields between the "-" of the string
DateOfFields(parts) ==
    IF Len(parts) # 3 THEN NoDate
    ELSE IF ~(Len(parts[1]) = 4 /\ AllDigits(parts[1])) THEN NoDate
    ELSE IF ~(Len(parts[2]) \in {1, 2} /\ AllDigits(parts[2])) THEN NoDate
    ELSE IF ~(Len(parts[3]) \in {1, 2} /\ AllDigits(parts[3])) THEN NoDate
    ELSE DateOf(ToInt(parts[1]), ToInt(parts[2]), ToInt(parts[3]))

strptime(s) == DateOfFields(Split(s, "-"))

\* date < date
DateLess(a, b) ==
    \/ a.y < b.y
    \/ a.y = b.y /\ a.m < b.m
    \/ a.y = b.y /\ a.m = b.m /\ a.d < b.d

Returns(v) == [exc |-> FALSE, val |-> v]
Raises == [exc |-> TRUE, val |-> FALSE]

\* within_range with both comparisons exclusive (d <= s, d >= e rejected)
within_range_exclusive(dstr, start, end) ==
    IF dstr = "" THEN Returns(FALSE)
    ELSE LET d == strptime(dstr) IN
         IF ~d.ok THEN Returns(FALSE)
         ELSE LET s == strptime(start)
                  e == strptime(end)
              IN  IF start # "" /\ ~s.ok THEN Raises
                  ELSE IF start # "" /\ ~DateLess(s, d) THEN Returns(FALSE)
                  ELSE IF end # "" /\ ~e.ok THEN Raises
                  ELSE IF end # "" /\ ~DateLess(d, e) THEN Returns(FALSE)
                  ELSE Returns(TRUE)

\* within_range(dstr, start, end): a returned bool, or the ValueError that the
\* unguarded strptime of start or end lets escape.
within_range(dstr, start, end) ==
    IF dstr = "" THEN Returns(FALSE)
    ELSE LET d == strptime(dstr) IN
         IF ~d.ok THEN Returns(FALSE)
         ELSE LET s == strptime(start)
                  e == strptime(end)
              IN  IF start # "" /\ ~s.ok THEN Raises
                  ELSE IF start # "" /\ DateLess(d, s) THEN Returns(FALSE)
                  ELSE IF end # "" /\ ~e.ok THEN Raises
                  ELSE IF end # "" /\ DateLess(e, d) THEN Returns(FALSE)
                  ELSE Returns(TRUE)

(***************************************************************************)
(* urllib.parse.urlsplit and parse_qs, as scraping/wechat.py and           *)
(* scraping/manager.py use them.  Percent-escapes, "+" and the ValueError  *)
(* of an unbalanced "[" in the host are left out: no URL of the model has  *)
(* them.                                                                   *)
(***************************************************************************)

SchemeChars == LowerLetters \o UpperLetters \o Digits \o "+-."

RECURSIVE AllSchemeChars(_)
AllSchemeChars(s) ==
    Len(s) = 0
    \/ (Contains(SchemeChars, Slice(s, 1, 1)) /\ AllSchemeChars(Slice(s, 2, Len(s))))

\* position of the first of "/", "?", "#" in s at or after i, Len(s) + 1 if none
RECURSIVE NetlocEnd(_, _)
NetlocEnd(s, i) ==
    IF i > Len(s) THEN Len(s) + 1
    ELSE IF Slice(s, i, i) \in {"/", "?", "#"} THEN i
    ELSE NetlocEnd(s, i + 1)

\* urlparse(u): scheme, netloc, path, query, fragment
\* the rest after the netloc: fragment from the first "#", query from the
\* first "?" before it
SplitPath(scheme, netloc, rest) ==
    [scheme |-> scheme, netloc |-> netloc,
     path |-> BeforeFirst(BeforeFirst(rest, "#"), "?"),
     query |-> AfterFirst(BeforeFirst(rest, "#"), "?"),
     fragment |-> AfterFirst(rest, "#")]

\* the rest after the scheme: a netloc when it starts with "//"
SplitNetloc(scheme, rest) ==
    IF Slice(rest, 1, 2) = "//"
    THEN SplitPath(scheme, Slice(rest, 3, NetlocEnd(rest, 3) - 1),
                   Slice(rest, NetlocEnd(rest, 3), Len(rest)))
    ELSE SplitPath(scheme, "", rest)

\* u[:i] is a scheme when i is the first ":", a letter comes first and
\* scheme characters only
SplitScheme(u, i) ==
    IF /\ i > 1
       /\ Contains(LowerLetters \o UpperLetters, Slice(u, 1, 1))
       /\ AllSchemeChars(Slice(u, 1, i - 1))
    THEN SplitNetloc(Lower(Slice(u, 1, i - 1)), Slice(u, i + 1, Len(u)))
    ELSE SplitNetloc("", u)

urlparse(u) == SplitScheme(u, FindFrom(u, ":", 1))

\* parse_qs(query).get(name): the values of name in order, blank values and
\* fields without "=" dropped (keep_blank_values=False); <<>> is a missing key.
RECURSIVE QsValues(_, _)
QsValues(fields, name) ==
    IF Len(fields) = 0 THEN <<>>
    ELSE LET f == Head(fields)
             hit == /\ Contains(f, "=")
                    /\ BeforeFirst(f, "=") = name
                    /\ AfterFirst(f, "=") # ""
         IN  (IF hit THEN <<AfterFirst(f, "=")>> ELSE <<>>) \o QsValues(Tail(fields), name)

parse_qs_get(query, name) == QsValues(Split(query, "&"), name)

_WECHAT_HOST == "mp.weixin.qq.com"

\* the generic strip of _normalize_wx_url: u.split("#", 1)[0].split("?", 1)[0]
StripQueryFragment(u) == BeforeFirst(BeforeFirst(u, "#"), "?")

\* (a or b or [""])[0]
FirstOf(a, b) == IF a # <<>> THEN a[1] ELSE IF b # <<>> THEN b[1] ELSE ""

\* the key of an article with this mid and idx, the stripped URL without them
WxKeyOf(u, mid, idx) ==
    IF mid # "" /\ idx # ""
    THEN "mpwx:mid=" \o mid \o "&idx=" \o idx
    ELSE StripQueryFragment(u)

\* _normalize_wx_url once urlparse has split u into pr
NormalizeParsed(u, pr) ==
    IF EndsWith(pr.netloc, _WECHAT_HOST) /\ StartsWith(pr.path, "/s")
    THEN WxKeyOf(u, FirstOf(parse_qs_get(pr.query, "mid"),
                            parse_qs_get(pr.query, "appmsgid")),
                 FirstOf(parse_qs_get(pr.query, "idx"), <<>>))
    ELSE StripQueryFragment(u)

\* _normalize_wx_url(u)
_normalize_wx_url(u) == NormalizeParsed(u, urlparse(u))

(***************************************************************************)
(* scraping/manager.py: the relevance filter and the rule-based label      *)
(***************************************************************************)

BLOCK_KEYS ==
    {"tzgg", "zwgk", "zfxxgk", "gk", "gkml", "bsfw", "zcfg",
     "zhaobiao", "zbgg", "gggs", "gsgg", "jyxx", "xxgk"}

MinTitleLen == 6
MinExcerptLen == 30

\* The title and the excerpt _looks_relevant judges: the record's own, or,
\* when one of them is empty and the record has a url, what
\* _fetch_title_excerpt returned (fetched = [title, excerpt], both "" when the
\* fetch failed).  The record itself is not updated.
NeedsFill(it) == (it.title = "" \/ it.excerpt = "") /\ it.url # ""
JudgedTitle(it, fetched) ==
    IF NeedsFill(it) /\ it.title = "" THEN fetched.title ELSE it.title
JudgedExcerpt(it, fetched) ==
    IF NeedsFill(it) /\ it.excerpt = "" THEN fetched.excerpt ELSE it.excerpt

\* the path blacklist: any(k in path for k in BLOCK_KEYS), path of the lowered url
PathBlocked(it) ==
    LET url == Lower(it.url)
        path == IF url # "" THEN urlparse(url).path ELSE ""
    IN  \E k \in BLOCK_KEYS : Contains(path, k)

\* the path blacklist without its keyword override
TitleHitsKeyword_never(title, keywords) == FALSE

\* any(kw.lower() in t_low for kw in keywords)
TitleHitsKeyword(title, keywords) ==
    LET t_low == Lower(title)
    IN  \E i \in 1..Len(keywords) : Contains(t_low, Lower(keywords[i]))

\* any((kw and kw in combo) for kw in keywords)
ComboHitsKeyword(title, excerpt, keywords) ==
    LET combo == title \o " " \o excerpt
    IN  \E i \in 1..Len(keywords) : keywords[i] # "" /\ Contains(combo, keywords[i])

\* the length test off by one: <= instead of <
TooShort_inclusive(title, excerpt) ==
    Len(Strip(title)) <= MinTitleLen \/ Len(Strip(excerpt)) <= MinExcerptLen

\* len(title.strip()) < 6 or len(excerpt.strip()) < 30
TooShort(title, excerpt) ==
    Len(Strip(title)) < MinTitleLen \/ Len(Strip(excerpt)) < MinExcerptLen

\* _looks_relevant(it, keywords), with the outcome of its one possible fetch
_looks_relevant(it, keywords, fetched) ==
    LET title == JudgedTitle(it, fetched)
        excerpt == JudgedExcerpt(it, fetched)
    IN  IF PathBlocked(it) /\ ~TitleHitsKeyword(title, keywords) THEN FALSE
        ELSE IF Len(keywords) > 0 /\ ~ComboHitsKeyword(title, excerpt, keywords) THEN FALSE
        ELSE IF TooShort(title, excerpt) THEN FALSE
        ELSE TRUE

\* the label read off the excerpt alone
_rule_based_predict_excerpt(title, excerpt, keywords) ==
    IF \E i \in 1..Len(keywords) : keywords[i] # "" /\ Contains(excerpt, keywords[i])
    THEN 1 ELSE 0

\* _rule_based_predict(title, excerpt, keywords)
_rule_based_predict(title, excerpt, keywords) ==
    IF \E i \in 1..Len(keywords) :
           keywords[i] # "" /\ (Contains(title, keywords[i]) \/ Contains(excerpt, keywords[i]))
    THEN 1 ELSE 0

(***************************************************************************)
(* Dates embedded in a URL: _DATE_URL of utils/date_parse.py and           *)
(* _date_from_url of scraping/patterns.py                                  *)
(***************************************************************************)

\* (0[1-9]|1[0-2])
IsMonth2(t) ==
    /\ Len(t) = 2
    /\ \/ Slice(t, 1, 1) = "0" /\ Contains("123456789", Slice(t, 2, 2))
       \/ Slice(t, 1, 1) = "1" /\ Contains("012", Slice(t, 2, 2))

\* (0[1-9]|[12]\d|3[01])
IsDay2(t) ==
    /\ Len(t) = 2
    /\ \/ Slice(t, 1, 1) = "0" /\ Contains("123456789", Slice(t, 2, 2))
       \/ Contains("12", Slice(t, 1, 1)) /\ IsDigit(Slice(t, 2, 2))
       \/ Slice(t, 1, 1) = "3" /\ Contains("01", Slice(t, 2, 2))

\* [/-]? : the separator is taken when present (a month or a day never
\* starts with one, so the regex cannot match by leaving it)
SepLen(s, j) == IF Slice(s, j, j) = "/" \/ Slice(s, j, j) = "-" THEN 1 ELSE 0

\* /(20\d{2})[/-]?(0[1-9]|1[0-2])[/-]?(0[1-9]|[12]\d|3[01]) matched at i
\* the match with the year at i + 1, the month at j and the day at k
DateUrlFields(s, i, j, k) ==
    [ok |-> /\ Slice(s, i, i) = "/"
            /\ Len(Slice(s, i + 1, i + 4)) = 4
            /\ Slice(s, i + 1, i + 2) = "20" /\ AllDigits(Slice(s, i + 1, i + 4))
            /\ IsMonth2(Slice(s, j, j + 1)) /\ IsDay2(Slice(s, k, k + 1)),
     y |-> Slice(s, i + 1, i + 4), m |-> Slice(s, j, j + 1),
     d |-> Slice(s, k, k + 1), last |-> k + 1]

\* where the day starts when the month starts at j
DateUrlMonthAt(s, i, j) == DateUrlFields(s, i, j, j + 2 + SepLen(s, j + 2))

DateUrlAt(s, i) == DateUrlMonthAt(s, i, i + 5 + SepLen(s, i + 5))

\* re.search: the leftmost match, 0 when there is none; slash = TRUE asks
\* for the closing "/" of DATE_PAT_URL[0]
RECURSIVE SearchDateUrl(_, _, _)
SearchDateUrl(s, i, slash) ==
    IF i > Len(s) THEN 0
    ELSE IF /\ DateUrlAt(s, i).ok
            /\ (~slash \/ Slice(s, DateUrlAt(s, i).last + 1, DateUrlAt(s, i).last + 1) = "/")
         THEN i
    ELSE SearchDateUrl(s, i + 1, slash)

\* f"{int(y):04d}-{int(m):02d}-{int(d):02d}" of groups that the patterns of
\* the URL give with two digits each
_pad(y, m, d) == y \o "-" \o m \o "-" \o d

\* the last layer of extract_date: _DATE_URL.search(url)
DateUrlFrom(url, i) ==
    IF i = 0 THEN ""
    ELSE _pad(DateUrlAt(url, i).y, DateUrlAt(url, i).m, DateUrlAt(url, i).d)
DateUrl(url) == DateUrlFrom(url, SearchDateUrl(url, 1, FALSE))

\* re.findall(r"(0[1-9]|1[0-2]|[12]\d|3[01])", g): the non-overlapping
\* two-digit tokens of g from left to right (1[0-2] is inside [12]\d)
RECURSIVE FindAllParts(_, _)
FindAllParts(g, i) ==
    IF i + 1 > Len(g) THEN <<>>
    ELSE IF IsMonth2(Slice(g, i, i + 1)) \/ IsDay2(Slice(g, i, i + 1))
         THEN <<Slice(g, i, i + 1)>> \o FindAllParts(g, i + 2)
         ELSE FindAllParts(g, i + 1)

\* DATE_PAT_URL[1] and [2] match only inside a match of DATE_PAT_URL[0],
\* which is tried first and always yields two parts, so the loop returns
\* at its first pattern or not at all.
\* y is the first 20\d{2} of the match g, parts what findall gives on g
DateFromParts(y, parts) ==
    IF Len(parts) >= 2 THEN y \o "-" \o parts[1] \o "-" \o parts[2] ELSE ""

\* the match is u from i to the closing "/"; its year follows the first "/"
DateFromMatch(u, i) ==
    IF i = 0 THEN ""
    ELSE DateFromParts(Slice(u, i + 1, i + 4),
                       FindAllParts(Slice(u, i, DateUrlAt(u, i).last + 1), 1))

_date_from_url(u) == DateFromMatch(u, SearchDateUrl(u, 1, TRUE))

(***************************************************************************)
(* The web.  A page is what BeautifulSoup reads out of its HTML:           *)
(*   ok            the GET answers 200 with a body                         *)
(*   title_tag     "none": no <title>; "nostring": a <title> whose .string *)
(*                 is None; "text": a <title> with text                    *)
(*   title, og_title, description, p, site_name: the tags of that name     *)
(*   d_extract     what the JSON-LD/meta/text layers of extract_date find  *)
(*   d_wx          #publish_time or var ct of a WeChat article             *)
(*   d_pattern     what _date_from_html finds (its own list of meta names) *)
(*   activity_name, js_name, js_content: the WeChat article elements       *)
(***************************************************************************)

NoPage ==
    [ok |-> FALSE, title_tag |-> "none", title |-> "", og_title |-> "",
     description |-> "", p |-> "", site_name |-> "", d_extract |-> "",
     d_wx |-> "", d_pattern |-> "", activity_name |-> "", js_name |-> "",
     js_content |-> ""]

PageBay ==
    [NoPage EXCEPT !.ok = TRUE, !.title_tag = "text",
                   !.title = " julong bay opens ",
                   !.p = "julong bay park opens for all.",
                   !.d_extract = "2025-08-01", !.d_pattern = "2025-08-02"]

PageNotice ==
    [NoPage EXCEPT !.ok = TRUE, !.title_tag = "text",
                   !.title = "julong notice",
                   !.description = "julong bay notice from the city hall.",
                   !.p = "the city hall publishes a notice",
                   !.site_name = "Guangzhou Daily"]

PageBroken ==
    [NoPage EXCEPT !.ok = TRUE, !.title_tag = "nostring",
                   !.p = "julong bay park opens for all."]

PageBridge ==
    [NoPage EXCEPT !.ok = TRUE, !.og_title = "bridge news today",
                   !.p = "traffic update."]

PageWx ==
    [NoPage EXCEPT !.ok = TRUE, !.activity_name = "gz night run",
                   !.p = "julong bay park opens for all.",
                   !.d_wx = "2025-08-03", !.js_name = "gz daily"]

UrlBay == "https://news.dayoo.com/gz/content_1_2.htm"
UrlBayApp == "https://news.dayoo.com/gz/content_1_2.htm?from=app"
UrlNotice == "https://news.dayoo.com/zwgk/content_3_4.htm"
UrlBroken == "https://news.dayoo.com/gz/content_5_6.htm"
UrlBridge == "https://news.dayoo.com/2025-08/02/content_7_8.htm"
UrlBridgeDay == "https://news.dayoo.com/2025-08-02/content_7_8.htm"
UrlWx == "https://mp.weixin.qq.com/s?mid=7&idx=1"
UrlWxShare == "https://mp.weixin.qq.com/s?idx=1&sn=ab&mid=7"
UrlWxGone == "https://mp.weixin.qq.com/s?mid=9&idx=1"

Web ==
    (UrlBay :> PageBay) @@ (UrlBayApp :> PageBay) @@ (UrlNotice :> PageNotice)
    @@ (UrlBroken :> PageBroken) @@ (UrlBridge :> PageBridge)
    @@ (UrlBridgeDay :> PageBridge)
    @@ (UrlWx :> PageWx) @@ (UrlWxShare :> PageWx) @@ (UrlWxGone :> NoPage)

Urls == DOMAIN Web

\* BaseCrawler.fetch, patterns._fetch, WechatCrawler._fetch and the GET of
\* _fetch_title_excerpt: the body on a 200, None on anything else
fetch(u) == IF u \in Urls THEN Web[u] ELSE NoPage

\* (soup.title.string if soup.title else "").strip(): AttributeError when
\* the <title> has no string
TitleString(pg) ==
    IF pg.title_tag = "none" THEN [exc |-> FALSE, val |-> ""]
    ELSE IF pg.title_tag = "nostring" THEN [exc |-> TRUE, val |-> ""]
    ELSE [exc |-> FALSE, val |-> Strip(pg.title)]

extract_date(pg, url) ==
    IF pg.d_extract # "" THEN pg.d_extract
    ELSE IF Contains(url, "mp.weixin.qq.com") /\ pg.d_wx # "" THEN pg.d_wx
    ELSE DateUrl(url)

_date_from_html(pg) == pg.d_pattern

\* what one URL of a channel's loop comes to
Skip == [kind |-> "skip"]
Fail == [kind |-> "raise"]
Item(it) == [kind |-> "item", item |-> it]
IsItem(o) == o.kind = "item"

\* dict.get(key) or "" and dict.setdefault(key, value)
Get(it, k) == IF k \in DOMAIN it THEN it[k] ELSE ""
setdefault(it, k, v) ==
    IF k \in DOMAIN it THEN it
    ELSE [f \in DOMAIN it \cup {k} |-> IF f = k THEN v ELSE it[f]]

\* _fetch_title_excerpt: any exception gives ("", "")
_fetch_title_excerpt(url) ==
    LET pg == fetch(url)  t == TitleString(pg) IN
    IF ~pg.ok \/ t.exc THEN [title |-> "", excerpt |-> ""]
    ELSE [title |-> t.val, excerpt |-> Slice(Strip(pg.p), 1, 240)]

(***************************************************************************)
(* Channel 1: GenericCrawler.crawl and AdvancedCrawler.crawl, one URL of   *)
(* the search results at a time                                            *)
(***************************************************************************)

\* the build has curl_cffi: AdvancedCrawler.is_available()
_CURL_OK == TRUE

GenericOne(u, domain) ==
    LET pg == fetch(u)  t == TitleString(pg) IN
    IF ~pg.ok THEN Skip
    ELSE IF t.exc THEN Fail
    ELSE Item([title   |-> IF t.val # "" THEN t.val ELSE Strip(pg.og_title),
               url     |-> u,
               date    |-> extract_date(pg, u),
               excerpt |-> IF Strip(pg.description) # ""
                           THEN Slice(Strip(pg.description), 1, 240)
                           ELSE Slice(Strip(pg.p), 1, 240),
               source  |-> IF Strip(pg.site_name) # ""
                           THEN Strip(pg.site_name) ELSE domain])

AdvancedOne(u, domain) ==
    LET pg == fetch(u)  t == TitleString(pg) IN
    IF ~pg.ok THEN Skip
    ELSE IF t.exc THEN Fail
    ELSE Item([title   |-> t.val,
               url     |-> u,
               date    |-> extract_date(pg, u),
               excerpt |-> Slice(Strip(pg.p), 1, 240),
               source  |-> domain])

\* _choose_crawler
_choose_crawler(use_advanced) ==
    IF use_advanced /\ _CURL_OK THEN "advanced" ELSE "generic"

(***************************************************************************)
(* Channel 2: PatternCrawler.crawl, one collected link at a time           *)
(***************************************************************************)

\* _host: lower, strip, drop one leading www. m. mp. or wap.
_host(h) ==
    LET x == Strip(Lower(h)) IN
    IF StartsWith(x, "www.") THEN Slice(x, 5, Len(x))
    ELSE IF StartsWith(x, "wap.") THEN Slice(x, 5, Len(x))
    ELSE IF StartsWith(x, "mp.") THEN Slice(x, 4, Len(x))
    ELSE IF StartsWith(x, "m.") THEN Slice(x, 3, Len(x))
    ELSE x

\* the keys of _RULES in insertion order; each rule's domain is its key
_RULES ==
    <<"dayoo.com", "gzdaily.dayoo.com", "people.com.cn", "news.cn",
      "southcn.com", "nfnews.com", "ycwb.com", "nandu.com", "xkb.com.cn",
      "cnstock.com", "cnr.cn", "gz.gov.cn",
      "yuexiu.gov.cn", "liwan.gov.cn", "haizhu.gov.cn", "tianhe.gov.cn",
      "baiyun.gov.cn", "huadu.gov.cn", "panyu.gov.cn", "nansha.gov.cn",
      "conghua.gov.cn", "zengcheng.gov.cn", "gdd.gov.cn", "huangpu.gov.cn">>

\* the loop of get_rule_for from key i on, best_key so far ("" for None)
RECURSIVE BestKey(_, _, _)
BestKey(d, i, best_key) ==
    IF i > Len(_RULES) THEN best_key
    ELSE LET k == _RULES[i] IN
         IF EndsWith(d, _host(k))
            /\ (best_key = "" \/ Len(_host(k)) > Len(_host(best_key)))
         THEN BestKey(d, i + 1, k)
         ELSE BestKey(d, i + 1, best_key)

\* get_rule_for: the key of the rule, "" for None
get_rule_for(domain) == BestKey(_host(domain), 1, "")

\* self.rule.domain: get_rule_for(domain) or _guess_generic_rule(domain)
RuleDomain(domain) ==
    IF get_rule_for(domain) # "" THEN get_rule_for(domain) ELSE domain

\* (start_date or end_date)
Ranged(start, end) == start # "" \/ end # ""

\* The third branch (the elif of line 414) is never taken: a URL date that
\* fails the range has already left the loop at line 404.
\* the record of the page pg of u, dated d, with title t
PatternItem(u, domain, d, pg, t) ==
    IF t.exc THEN Fail
    ELSE Item([title   |-> t.val,
               url     |-> u,
               date    |-> d,
               excerpt |-> Slice(Strip(pg.p), 1, 240),
               source  |-> RuleDomain(domain),
               channel |-> "pattern"])

\* after the test of the URL date d0: the page pg and, if not d0, the date
\* of its HTML with its range test
PatternPage(u, domain, start, end, d0, pg) ==
    IF ~pg.ok THEN Skip
    ELSE IF d0 # "" THEN PatternItem(u, domain, d0, pg, TitleString(pg))
    ELSE IF /\ Ranged(start, end) /\ _date_from_html(pg) # ""
            /\ within_range(_date_from_html(pg), start, end).exc
         THEN Fail
    ELSE IF /\ Ranged(start, end) /\ _date_from_html(pg) # ""
            /\ ~within_range(_date_from_html(pg), start, end).val
         THEN Skip
    ELSE PatternItem(u, domain, _date_from_html(pg), pg, TitleString(pg))

\* the URL date d0 and its range test w0
PatternDated(u, domain, start, end, d0, w0) ==
    IF Ranged(start, end) /\ d0 # "" /\ w0.exc THEN Fail
    ELSE IF Ranged(start, end) /\ d0 # "" /\ ~w0.val THEN Skip
    ELSE PatternPage(u, domain, start, end, d0, fetch(u))

PatternOne(u, domain, start, end) ==
    PatternDated(u, domain, start, end, _date_from_url(u),
                 within_range(_date_from_url(u), start, end))

(***************************************************************************)
(* Channel W: WechatCrawler._search_urls and WechatCrawler.crawl           *)
(***************************************************************************)

\* keep the WeChat host, first URL of each normalized key, at most 36
RECURSIVE _search_urls(_, _)
_search_urls(urls, seen) ==
    IF urls = <<>> THEN <<>>
    ELSE LET u == Head(urls)  key == _normalize_wx_url(u) IN
         IF ~Contains(u, _WECHAT_HOST) \/ key \in seen
         THEN _search_urls(Tail(urls), seen)
         ELSE <<u>> \o _search_urls(Tail(urls), seen \cup {key})

\* WechatCrawler.crawl without its date test
WechatOne_undated(u, start, end) ==
    LET pg == fetch(u)
        t1 == Strip(pg.activity_name)
    IN  IF ~pg.ok THEN Skip
        ELSE Item([title   |-> IF t1 # "" THEN t1 ELSE "(untitled)",
                   url     |-> u,
                   date    |-> extract_date(pg, u),
                   excerpt |-> Slice(Strip(pg.js_content), 1, 300),
                   source  |-> IF Strip(pg.js_name) # ""
                               THEN Strip(pg.js_name) ELSE "WeChat MP"])

WechatOne(u, start, end) ==
    LET pg == fetch(u)
        d  == extract_date(pg, u)
        w  == within_range(d, start, end)
        t1 == Strip(pg.activity_name)
        t2 == IF t1 = "" /\ pg.title_tag # "none" THEN Strip(pg.title) ELSE t1
    IN  IF ~pg.ok THEN Skip
        ELSE IF Ranged(start, end) /\ w.exc THEN Fail
        ELSE IF Ranged(start, end) /\ ~w.val THEN Skip
        ELSE Item([title   |-> IF t2 # "" THEN t2 ELSE "(untitled)",
                   url     |-> u,
                   date    |-> d,
                   excerpt |-> Slice(Strip(pg.js_content), 1, 300),
                   source  |-> IF Strip(pg.js_name) # ""
                               THEN Strip(pg.js_name) ELSE "WeChat MP"])

(***************************************************************************)
(* Bounded inputs of CrawlerManager.crawl and of the channels              *)
(***************************************************************************)

\* URLs that the searches and the link collection of one crawl call yield,
\* all channels together
MaxHits == 3

TheKeywords == <<"julong">>
StartDates == {"", "2025-08-01", "2025-08-02", "2025/08/01"}
EndDates == {"", "2025-08-02"}
DomainSet == {"", "dayoo.com", "gzdaily.dayoo.com"}

Calls ==
    [keywords     : {<<>>, TheKeywords},
     media_names  : {<<>>, <<"dayoo">>},
     start_date   : StartDates,
     end_date     : EndDates,
     use_advanced : BOOLEAN,
     strict_date  : {0, 1},
     allow_wechat : BOOLEAN]

\* search_multi and _collect_links return each URL once
Range(s) == {s[i] : i \in 1..Len(s)}

RECURSIVE SeqsOfLen(_, _)
SeqsOfLen(pool, k) ==
    IF k = 0 THEN {<<>>}
    ELSE UNION {{Append(s, u) : u \in pool \ Range(s)} : s \in SeqsOfLen(pool, k - 1)}

HitSeqs(pool, n) == UNION {SeqsOfLen(pool, k) : k \in 0..n}

SearchPool == {UrlBay, UrlBayApp, UrlNotice, UrlBroken, UrlWx}
PatternPool == {UrlBay, UrlNotice, UrlBroken, UrlBridge}
WechatPool == {UrlWx, UrlWxShare, UrlWxGone}

SearchHits == HitSeqs(SearchPool, MaxHits)
PatternHits == HitSeqs(PatternPool, MaxHits)
WechatHits == HitSeqs(WechatPool, MaxHits)

\* what resolve_multi does for one media name, and what
\* discover_domains_by_keywords returns
ResolveOutcome ==
    [n \in {"dayoo", "gzrb"} |->
        IF n = "dayoo"
        THEN {[exc |-> TRUE, val |-> <<>>], Returns(<<>>), Returns(<<"dayoo.com">>)}
        ELSE {Returns(<<"gzdaily.dayoo.com">>), Returns(<<"dayoo.com", "gzdaily.dayoo.com">>)}]
ResolveOutcomes(media_names) ==
    {outs \in [1..Len(media_names) -> UNION {ResolveOutcome[n] : n \in DOMAIN ResolveOutcome}] :
        \A k \in 1..Len(media_names) : outs[k] \in ResolveOutcome[media_names[k]]}
DiscoverOutcomes == {<<>>, <<"dayoo.com">>}

(***************************************************************************)
(* The channels on a list of URLs.  Each per-URL outcome is looked up in a *)
(* table computed once from the operators above.                           *)
(***************************************************************************)

GenericTable == [u \in Urls, d \in DomainSet |-> GenericOne(u, d)]
AdvancedTable == [u \in Urls, d \in DomainSet |-> AdvancedOne(u, d)]
PatternTable ==
    [u \in Urls, d \in DomainSet \ {""}, s \in StartDates, e \in EndDates |->
        PatternOne(u, d, s, e)]
WechatTable == [u \in Urls, s \in StartDates, e \in EndDates |-> WechatOne(u, s, e)]

\* the list a crawl method returns, or the exception it raises
ListOf(outs) ==
    IF \E k \in 1..Len(outs) : outs[k].kind = "raise"
    THEN [exc |-> TRUE, val |-> <<>>]
    ELSE LET kept == SelectSeq(outs, IsItem)
         IN  [exc |-> FALSE, val |-> [k \in 1..Len(kept) |-> kept[k].item]]

SearchCrawl(urls, domain, use_advanced) ==
    ListOf([k \in 1..Len(urls) |->
              IF _choose_crawler(use_advanced) = "advanced"
              THEN AdvancedTable[urls[k], domain]
              ELSE GenericTable[urls[k], domain]])

run_pattern_crawl(urls, domain, start, end) ==
    ListOf([k \in 1..Len(urls) |-> PatternTable[urls[k], domain, start, end]])

\* try: items = ... except Exception: items = []
OrEmpty(r) == IF r.exc THEN <<>> ELSE r.val

\* _run_pattern in "func" mode
_run_pattern(urls, domain, start, end) ==
    OrEmpty(run_pattern_crawl(urls, domain, start, end))

\* the normalized key of each URL and the URLs _search_urls keeps
WxKey == [u \in Urls |-> _normalize_wx_url(u)]
WechatSearch == [h \in WechatHits |-> _search_urls(h, {})]

WxMaxResults == 36

\* WechatCrawler.crawl on the first WxMaxResults URLs _search_urls kept
WechatCrawl(hits, start, end) ==
    ListOf([k \in 1..(IF Len(WechatSearch[hits]) < WxMaxResults
                      THEN Len(WechatSearch[hits]) ELSE WxMaxResults) |->
              WechatTable[WechatSearch[hits][k], start, end]])

\* every record a channel can hand to the manager, tagged as the merge tags it
TableItems(T) == {T[x].item : x \in {y \in DOMAIN T : IsItem(T[y])}}
Records ==
    {setdefault(it, "channel", "search") :
        it \in TableItems(GenericTable) \cup TableItems(AdvancedTable)}
    \cup TableItems(PatternTable)
    \cup {setdefault(it, "channel", "wechat") : it \in TableItems(WechatTable)}

\* tables of the string computations of the manager's loops
DateVerdict ==
    [d \in {it.date : it \in Records}, s \in StartDates, e \in EndDates |->
        within_range(Strip(d), s, e)]
Relevant ==
    [it \in Records |->
        _looks_relevant(it, TheKeywords, _fetch_title_excerpt(Lower(it.url)))]
Label ==
    [it \in Records |-> _rule_based_predict(it.title, it.excerpt, TheKeywords)]

_WECHAT_READY == TRUE

(***************************************************************************)
(* State.                                                                  *)
(*   fn, arg, ret   one call of a helper function, its arguments and what  *)
(*                  it returned                                            *)
(*   pc             where CrawlerManager.crawl is: start, ch1, filter,     *)
(*                  ch2, wechat, relevance, done (returned), raised        *)
(*   call           the arguments of the crawl call                        *)
(*   domains, di   the domain list and the position of the running loop   *)
(*   items          the list the latest channel call returned              *)
(*   results, seen_urls   the locals of that name                          *)
(*   hits           URLs the searches and link collections yielded so far  *)
(*   ml_state       the one row of table ml_state: model, threshold (in    *)
(*                  hundredths), active                                    *)
(*   site_mapping   table site_mapping: name -> domain                     *)
(*   crawl_results, training_data   the rows of these tables, oldest first *)
(*   ml_runs        the rows of table ml_runs, oldest first                *)
(*   passed         the model names for which a call of train_and_eval has *)
(*                  returned pass_gate true so far (a record of the calls, *)
(*                  kept to state what precedes an activation)             *)
(***************************************************************************)
VARIABLES fn, arg, ret, pc, call, resolved, domains, di, items, results, seen_urls,
          hits, limiter, ml_state, site_mapping, crawl_results, training_data,
          ml_runs, tx, passed

fnvars == <<fn, arg, ret>>
crawlvars == <<pc, call, resolved, domains, di, items, results, seen_urls, hits, limiter>>
storevars == <<ml_state, site_mapping, crawl_results, training_data, ml_runs, tx, passed>>
logvars == <<ml_runs, tx, passed>>
vars == <<fn, arg, ret, pc, call, resolved, domains, di, items, results, seen_urls,
          hits, limiter, ml_state, site_mapping, crawl_results, training_data,
          ml_runs, tx, passed>>

FnIdle == fn = "none" /\ arg = <<>> /\ ret = <<>>

NoCall ==
    [keywords |-> <<>>, media_names |-> <<>>, start_date |-> "", end_date |-> "",
     use_advanced |-> FALSE, strict_date |-> 1, allow_wechat |-> FALSE]

\* no connection has a transaction open
NoTx == <<>>

\* no WechatCrawler has been constructed
NoLimiter == <<>>

\* the tables after init_db on a new database (sqlite_store.py 16-35)
StoreIdle ==
    /\ ml_state = [model |-> "nb", threshold |-> 70, active |-> 0]
    /\ site_mapping = <<>>
    /\ crawl_results = <<>> /\ training_data = <<>> /\ ml_runs = <<>>
    /\ tx = NoTx /\ passed = {}

CrawlIdle ==
    /\ pc = "idle" /\ call = NoCall /\ domains = <<>> /\ di = 0
    /\ resolved = [raw |-> <<>>, discovered |-> <<>>] /\ limiter = NoLimiter
    /\ items = <<>> /\ results = <<>> /\ seen_urls = {} /\ hits = 0

(***************************************************************************)
(* Calls of the helper functions on bounded inputs                         *)
(***************************************************************************)

\* date arguments: unknown, valid (padded or not), a day that does not exist,
\* and a string that is not %Y-%m-%d
DateStrings ==
    {"", "2025-08-01", "2025-8-2", "2025-08-03", "2025-07-31", "2025-02-30", "2025/08/01"}

CallWithinRange ==
    /\ fn = "none"
    /\ \E d \in DateStrings, s \in DateStrings, e \in DateStrings :
        /\ fn' = "within_range"
        /\ arg' = [dstr |-> d, start |-> s, end |-> e]
        /\ ret' = within_range(d, s, e)
    /\ UNCHANGED <<crawlvars, storevars>>

\* WeChat article URLs built from a (mid, idx) pair: the parameter orders and
\* the tracking parameters differ, the pair does not.
WxMids == {"7", "2247"}
WxIdxs == {"1", "2"}
WxSchemes == {"http", "https"}
WxShapes == 1..5
WxFragments == {"", "#rd"}

WxQuery(mid, idx, shape) ==
    CASE shape = 1 -> "mid=" \o mid \o "&idx=" \o idx
      [] shape = 2 -> "idx=" \o idx \o "&mid=" \o mid
      [] shape = 3 -> "__biz=MzA&mid=" \o mid \o "&idx=" \o idx \o "&sn=ab"
      [] shape = 4 -> "idx=" \o idx \o "&sn=ab&chksm=c1&mid=" \o mid
      [] shape = 5 -> "scene=21&mid=" \o mid \o "&from=&idx=" \o idx \o "&sn"

WxUrl(scheme, mid, idx, shape, frag) ==
    scheme \o "://" \o _WECHAT_HOST \o "/s?" \o WxQuery(mid, idx, shape) \o frag

WxArticleUrls ==
    {WxUrl(sc, m, i, sh, fr) :
        sc \in WxSchemes, m \in WxMids, i \in WxIdxs, sh \in WxShapes, fr \in WxFragments}

\* other URLs a search can return
OtherUrls ==
    {"https://news.dayoo.com/gz/a.htm",
     "https://news.dayoo.com/gz/a.htm?from=app#top",
     "https://mp.weixin.qq.com/s/AbCdEf?scene=1",
     "https://mp.weixin.qq.com/s?mid=7",
     "https://mp.weixin.qq.com/s?mid=7&idx=1?from=timeline",
     "https://mp.weixin.qq.com/mp/profile?mid=7&idx=1",
     "mpwx:mid=7&idx=1",
     ""}

CallNormalize ==
    /\ fn = "none"
    /\ \E u \in WxArticleUrls \cup OtherUrls :
        /\ fn' = "normalize"
        /\ arg' = [u |-> u]
        /\ ret' = _normalize_wx_url(u)
    /\ UNCHANGED <<crawlvars, storevars>>

\* the key of a URL normalized once more
CallNormalizeAgain ==
    /\ fn = "normalize"
    /\ fn' = "normalize_again"
    /\ arg' = [u |-> ret]
    /\ ret' = _normalize_wx_url(ret)
    /\ UNCHANGED <<crawlvars, storevars>>

\* two article URLs of one (mid, idx) pair
CallNormalizePair ==
    /\ fn = "none"
    /\ \E m \in WxMids, i \in WxIdxs, s1 \in WxSchemes, s2 \in WxSchemes,
          h1 \in WxShapes, h2 \in WxShapes, f1 \in WxFragments, f2 \in WxFragments :
        /\ fn' = "normalize_pair"
        /\ arg' = [mid |-> m, idx |-> i,
                   u1 |-> WxUrl(s1, m, i, h1, f1), u2 |-> WxUrl(s2, m, i, h2, f2)]
        /\ ret' = <<_normalize_wx_url(WxUrl(s1, m, i, h1, f1)),
                    _normalize_wx_url(WxUrl(s2, m, i, h2, f2))>>
    /\ UNCHANGED <<crawlvars, storevars>>

\* records as the channels hand them to the relevance filter: titles and
\* excerpts are stripped by every channel
FilterTitles ==
    {"", "julon", "julong", "Julong Bay news", "city hall notice", "julong bay opens"}
FilterExcerpts ==
    {"", "julong bay park opens to all.", "julong bay park opens for all.",
     "the city hall publishes a notice"}
FilterUrls ==
    {"", "https://news.dayoo.com/gz/a.htm", "https://news.dayoo.com/ZWGK/b.htm",
     "https://zwgk.dayoo.com/gz/c.htm?k=zwgk"}
FilterKeywords == {<<"julong">>, <<"wan", "julong">>, <<"Julong">>, <<"", "bay">>}
FilterFetched ==
    {[title |-> "", excerpt |-> ""],
     [title |-> "julong bay opens", excerpt |-> "julong bay park opens for all."],
     [title |-> "city hall notice", excerpt |-> "the city hall publishes a notice"]}

CallLooksRelevant ==
    /\ fn = "none"
    /\ \E t \in FilterTitles, e \in FilterExcerpts, u \in FilterUrls,
          kws \in FilterKeywords, f \in FilterFetched :
        /\ fn' = "looks_relevant"
        /\ arg' = [it |-> [title |-> t, excerpt |-> e, url |-> u],
                   keywords |-> kws, fetched |-> f]
        /\ ret' = _looks_relevant([title |-> t, excerpt |-> e, url |-> u], kws, f)
    /\ UNCHANGED <<crawlvars, storevars>>

\* one candidate URL of the loop of PatternCrawler.crawl: with a date in
\* its path, without one, and one whose page cannot be fetched
CandidateUrls == {UrlBridgeDay, UrlBridge, UrlNotice, UrlBroken}

CallPatternCrawl ==
    /\ fn = "none"
    /\ \E u \in CandidateUrls, s \in StartDates, e \in EndDates :
        /\ fn' = "pattern_crawl"
        /\ arg' = [url |-> u, domain |-> "dayoo.com", start_date |-> s, end_date |-> e]
        /\ ret' = PatternTable[u, "dayoo.com", s, e]
    /\ UNCHANGED <<crawlvars, storevars>>

InitFn == FnIdle /\ CrawlIdle /\ StoreIdle

NextFn ==
    \/ CallWithinRange
    \/ CallNormalize
    \/ CallNormalizeAgain
    \/ CallNormalizePair
    \/ CallLooksRelevant
    \/ CallPatternCrawl

SpecFn == InitFn /\ [][NextFn]_vars

(***************************************************************************)
(* ml/eval.py: train_and_eval, and set_ml_state of storage/sqlite_store.py *)
(* A sample set is its size n and the number pos of its samples labelled   *)
(* 1, the others being labelled 0.  Metrics are fractions [num, den];      *)
(* thresholds are in hundredths.                                           *)
(***************************************************************************)

\* if n < 20
MinSamples == 20
NotEnough_inclusive(n) == n <= MinSamples
NotEnough(n) == n < MinSamples

\* train_test_split(test_size=0.2): ceil(0.2 * n) test samples, the rest train
TestSize(n) == (n + 4) \div 5

\* stratify=y raises ValueError when a class has a single member
StratifyFails(n, pos) == pos = 1 \/ n - pos = 1

\* the samples labelled 1 of the test fold: their share of the test fold,
\* rounded either way
PosInTest(n, pos) ==
    {k \in 0..TestSize(n) :
        /\ k * n <= pos * TestSize(n) + (n - 1)
        /\ k * n >= pos * TestSize(n) - (n - 1)
        /\ k <= pos /\ TestSize(n) - k <= n - pos}

\* make_model: the registry entry of the lowered name, naive Bayes otherwise
make_model(name) == IF name \in {"nb", "lr", "bert"} THEN name ELSE "nb"

\* model.train raises: LogisticRegression.fit on labels of a single class
TrainFails(model, n, pos, ptest) ==
    make_model(model) = "lr" /\ (pos - ptest = 0 \/ pos - ptest = n - TestSize(n))

\* num/den with zero_division=0
Ratio(num, den) == IF den = 0 THEN [num |-> 0, den |-> 1] ELSE [num |-> num, den |-> den]

\* f1 >= float(threshold), the threshold in hundredths
AtLeast(f, threshold) == f.num * 100 >= threshold * f.den

\* lines 22-29: the metrics of tp true positives and fp false positives on a
\* test fold with ptest samples labelled 1
Metrics(n, ptest, tp, fp, threshold) ==
    [ok |-> TRUE,
     precision |-> Ratio(tp, tp + fp),
     recall |-> Ratio(tp, ptest),
     f1 |-> Ratio(2 * tp, 2 * tp + fp + (ptest - tp)),
     n_train |-> n - TestSize(n), n_test |-> TestSize(n),
     pass_gate |-> AtLeast(Ratio(2 * tp, 2 * tp + fp + (ptest - tp)), threshold)]

\* what train_and_eval comes to: exc an exception, val the returned dict,
\* trained whether a model was made and trained
Outcome(exc, val, trained) == [exc |-> exc, val |-> val, trained |-> trained]

train_and_eval(model, n, pos, threshold, ptest, tp, fp) ==
    IF NotEnough(n)
    THEN Outcome(FALSE, [ok |-> FALSE, reason |-> "not-enough-samples", n |-> n], FALSE)
    ELSE IF StratifyFails(n, pos) THEN Outcome(TRUE, <<>>, FALSE)
    ELSE IF TrainFails(model, n, pos, ptest) THEN Outcome(TRUE, <<>>, TRUE)
    ELSE Outcome(FALSE, Metrics(n, ptest, tp, fp, threshold), TRUE)

\* set_ml_state: UPDATE of the one row
set_ml_state(model, threshold, active) ==
    [model |-> model, threshold |-> threshold, active |-> IF active THEN 1 ELSE 0]

(***************************************************************************)
(* Calls of train_and_eval and set_ml_state.  A call of train_and_eval     *)
(* follows the start or a set_ml_state, and a set_ml_state the start or a  *)
(* train_and_eval: two calls of the same function in a row add no case.    *)
(***************************************************************************)

MaxSamples == 21
SampleCounts == {0} \cup (MinSamples - 1)..MaxSamples
MlModels == {"nb", "lr", "bert"}
Thresholds == {0, 70, 100}

\* the test folds the split can draw, where the split is reached
Folds(n, pos) == IF NotEnough(n) \/ StratifyFails(n, pos) THEN {0} ELSE PosInTest(n, pos)

\* the true and false positives the predictions can have on a fold
Positives(n, ptest) == IF NotEnough(n) THEN {0} ELSE 0..ptest
FalsePositives(n, ptest) == IF NotEnough(n) THEN {0} ELSE 0..(TestSize(n) - ptest)

\* the record of the gate results after a call that returned r for model
Passed(ps, model, r) ==
    IF ~r.exc /\ r.val.ok /\ r.val.pass_gate THEN ps \cup {model} ELSE ps

\* a variant that activates the model it evaluated when the gate passes
CallTrainAndEval_activating ==
    /\ fn \in {"none", "set_ml_state"}
    /\ \E model \in MlModels, n \in SampleCounts, threshold \in Thresholds :
        \E pos \in 0..n : \E ptest \in Folds(n, pos) :
        \E tp \in Positives(n, ptest), fp \in FalsePositives(n, ptest) :
            /\ fn' = "train_and_eval"
            /\ arg' = [model_name |-> model, n |-> n, pos |-> pos, threshold |-> threshold]
            /\ ret' = train_and_eval(model, n, pos, threshold, ptest, tp, fp)
            /\ ml_state' = IF ~ret'.exc /\ ret'.val.ok /\ ret'.val.pass_gate
                           THEN set_ml_state(model, threshold, TRUE) ELSE ml_state
            /\ passed' = Passed(passed, model, ret')
    /\ UNCHANGED <<crawlvars, site_mapping, crawl_results, training_data, ml_runs, tx>>

CallTrainAndEval ==
    /\ fn \in {"none", "set_ml_state"}
    /\ \E model \in MlModels, n \in SampleCounts, threshold \in Thresholds :
        \E pos \in 0..n : \E ptest \in Folds(n, pos) :
        \E tp \in Positives(n, ptest), fp \in FalsePositives(n, ptest) :
            /\ fn' = "train_and_eval"
            /\ arg' = [model_name |-> model, n |-> n, pos |-> pos, threshold |-> threshold]
            /\ ret' = train_and_eval(model, n, pos, threshold, ptest, tp, fp)
            /\ passed' = Passed(passed, model, ret')
    /\ UNCHANGED <<crawlvars, ml_state, site_mapping, crawl_results, training_data,
                   ml_runs, tx>>

CallSetMlState ==
    /\ fn # "set_ml_state"
    /\ \E model \in {"nb", "lr"}, threshold \in {70, 100}, active \in BOOLEAN :
        /\ fn' = "set_ml_state"
        /\ arg' = [model |-> model, threshold |-> threshold, active |-> active]
        /\ ret' = <<>>
        /\ ml_state' = set_ml_state(model, threshold, active)
    /\ UNCHANGED <<crawlvars, site_mapping, crawl_results, training_data, logvars>>

NextMl ==
    \/ CallTrainAndEval
    \/ CallSetMlState

SpecMl == InitFn /\ [][NextMl]_vars

(***************************************************************************)
(* storage/sqlite_store.py: record_ml_run                                  *)
(***************************************************************************)

\* record_ml_run: INSERT INTO ml_runs (ts left out)
record_ml_run(runs, model, precision, recall, f1, n_train, n_test) ==
    Append(runs, [model |-> model, precision |-> precision, recall |-> recall,
                  f1 |-> f1, n_train |-> n_train, n_test |-> n_test])

MaxRuns == 2

(***************************************************************************)
(* storage/sqlite_store.py: save_review_results                            *)
(***************************************************************************)

\* dict.get(key, default)
GetOr(it, k, v) == IF k \in DOMAIN it THEN it[k] ELSE v

\* f"{title}\n{excerpt}".strip()
ReviewText(title, excerpt) ==
    IF Strip(title) = "" THEN Strip(excerpt)
    ELSE IF Strip(excerpt) = "" THEN Strip(title)
    ELSE LStrip(title) \o "\n" \o RStrip(excerpt)

\* the crawl_results row of one item (created_at left out)
ReviewRow(run_id, a, keywords, media_names) ==
    [run_id |-> run_id, title |-> GetOr(a, "title", ""), url |-> GetOr(a, "url", ""),
     source |-> GetOr(a, "source", ""), date |-> GetOr(a, "date", ""),
     excerpt |-> GetOr(a, "excerpt", ""),
     predicted_label |-> GetOr(a, "predicted_label", 0),
     human_label |-> GetOr(a, "human_label", GetOr(a, "predicted_label", 0)),
     keywords |-> keywords, media_names |-> media_names]

\* the training_data rows of one crawl_results row: one when its text is not empty
SampleOf(row) ==
    IF ReviewText(row.title, row.excerpt) = "" THEN <<>>
    ELSE <<[text |-> ReviewText(row.title, row.excerpt), label |-> row.human_label]>>

\* the loop over items: a row for each, a sample for each with a text, and
\* the count of the items
RECURSIVE save_review_results(_, _, _, _, _, _, _)
save_review_results(cr, td, cnt, run_id, its, keywords, media_names) ==
    IF its = <<>> THEN [crawl_results |-> cr, training_data |-> td, cnt |-> cnt]
    ELSE save_review_results(
             Append(cr, ReviewRow(run_id, Head(its), keywords, media_names)),
             td \o SampleOf(ReviewRow(run_id, Head(its), keywords, media_names)),
             cnt + 1, run_id, Tail(its), keywords, media_names)

\* reviewed items: with a url and a text, with a human label that overrides
\* the prediction, with a url and no text, without a url key, with an empty url
ReviewItems ==
    {[title |-> "julong bay opens", url |-> UrlBay, excerpt |-> "julong bay park",
      predicted_label |-> 1],
     [title |-> "city notice", url |-> UrlNotice, excerpt |-> "",
      predicted_label |-> 1, human_label |-> 0],
     [title |-> "", url |-> UrlBayApp, excerpt |-> " ", predicted_label |-> 0],
     [title |-> "julong night run", excerpt |-> "", predicted_label |-> 1],
     [title |-> "", url |-> "", excerpt |-> ""]}

MaxItems == 3

RECURSIVE Batches(_, _)
Batches(pool, k) ==
    IF k = 0 THEN {<<>>}
    ELSE Batches(pool, k - 1)
         \cup UNION {{Append(s, a) : a \in pool} : s \in Batches(pool, k - 1)}

ReviewBatches == Batches(ReviewItems, MaxItems)

\* the tables and the result after the call
Saved(s) ==
    /\ crawl_results' = s.crawl_results
    /\ training_data' = s.training_data
    /\ ret' = s.cnt

CallSaveReviewResults ==
    /\ fn = "none"
    /\ \E its \in ReviewBatches :
        /\ fn' = "save_review_results"
        /\ arg' = [run_id |-> "run1", items |-> its, keywords |-> "julong",
                   media_names |-> "dayoo"]
        /\ Saved(save_review_results(crawl_results, training_data, 0, "run1", its,
                                     "julong", "dayoo"))
    /\ UNCHANGED <<crawlvars, ml_state, site_mapping, logvars>>

NextReview == CallSaveReviewResults

SpecReview == InitFn /\ [][NextReview]_vars

(***************************************************************************)
(* utils/site_resolver.py: SiteResolver.resolve_multi.  The media names    *)
(* and the name suffixes of the source are Chinese; they are written here  *)
(* in pinyin.                                                              *)
(***************************************************************************)

_THIRD_DEFAULT ==
    {"weibo.com", "kuaibao.qq.com", "toutiao.com", "baijiahao.baidu.com", "zhihu.com",
     "xhs.cn", "bilibili.com", "douyin.com", "kuaishou.com"}

\* the same substitution as _host of patterns.py
_norm_host(h) == _host(h)

WechatSuffixes == {"fabu", "ban", "tai", "pindao", "shizheng", "zhongxin"}
_looks_like_wechat_name(name) == \E t \in WechatSuffixes : EndsWith(name, t)

\* rows of _ALIAS: one domain, two domains, no domain ("let search decide"),
\* and a name with the suffix of an official account
_ALIAS ==
    [n \in {"dayoo wang", "guangzhou ribao", "guangzhou diantai", "guangzhou fabu"} |->
        [domains |-> CASE n = "dayoo wang" -> <<"dayoo.com">>
                       [] n = "guangzhou ribao" -> <<"dayoo.com", "gzdaily.dayoo.com">>
                       [] n = "guangzhou diantai" -> <<>>
                       [] n = "guangzhou fabu" -> <<"gz.gov.cn">>,
         platform |-> "web"]]

\* var/aliases_extra.json, here with one account on the wechat platform
_load_external ==
    [n \in {"yangcheng pai"} |-> [domains |-> <<>>, platform |-> "wechat"]]

\* alias = dict(_ALIAS); alias.update(_load_external())
Alias ==
    [n \in DOMAIN _ALIAS \cup DOMAIN _load_external |->
        IF n \in DOMAIN _load_external THEN _load_external[n] ELSE _ALIAS[n]]

\* add_site_mapping: INSERT OR REPLACE of the row of name
add_site_mapping(sm, name, domain) ==
    [n \in DOMAIN sm \cup {name} |-> IF n = name THEN domain ELSE sm[n]]

\* get_site_domain: the domain of the row of name, None without a row
get_site_domain(sm, name) == IF name \in DOMAIN sm THEN sm[name] ELSE ""

\* the names resolve_multi is called with, and the values of top_k
ResolverNames ==
    {"", "dayoo wang", " dayoo wang ", "guangzhou ribao", "guangzhou diantai",
     "guangzhou fabu", "yangcheng pai", "julong bao"}
TopKs == {0, 1, 2, 3, 4}

\* what search_multi can return for a name: the site, its mobile host, a
\* Weibo page and a WeChat article
UrlSite == "https://www.julongbao.cn/"
UrlSiteMobile == "https://m.julongbao.cn/news/"
UrlWeibo == "https://weibo.com/julongbao"
ResolverPool == {UrlSite, UrlSiteMobile, UrlWeibo, UrlWx}
ResolverHits == HitSeqs(ResolverPool, MaxHits)

\* name = (name or "").strip(), computed once for each name
Stripped == [n \in ResolverNames |-> Strip(n)]

\* [_norm_host(x) for x in alias[name].get("domains", [])], for each name
NormAll(ds) == [i \in 1..Len(ds) |-> _norm_host(ds[i])]
AliasDomains ==
    [n \in {Stripped[m] : m \in ResolverNames} |->
        IF n \in DOMAIN Alias THEN NormAll(Alias[n].domains) ELSE <<>>]

\* host = _norm_host(urlparse(u).netloc), for each search result
HostOf == [u \in ResolverPool |-> _norm_host(urlparse(u).netloc)]

\* _norm_host(cached), for each domain the cache can hold
Cacheable ==
    {HostOf[u] : u \in ResolverPool}
        \cup UNION {Range(AliasDomains[n]) : n \in DOMAIN AliasDomains}
NormCached == [h \in Cacheable |-> _norm_host(h)]

\* out after the alias table and the cache
Known(name, cached) ==
    AliasDomains[name] \o (IF cached = "" THEN <<>> ELSE <<NormCached[cached]>>)

\* _looks_like_wechat_name(name) or the platform of its alias is "wechat"
WechatStyle ==
    [n \in DOMAIN AliasDomains |->
        \/ _looks_like_wechat_name(n)
        \/ (n \in DOMAIN Alias /\ Alias[n].platform = "wechat")]

wechat_ok(name, allow_wechat) == allow_wechat /\ WechatStyle[name]

\* third after the discard
Third(name, allow_wechat) ==
    IF wechat_ok(name, allow_wechat) THEN _THIRD_DEFAULT \ {_WECHAT_HOST} ELSE _THIRD_DEFAULT

\* the entries t of _THIRD_DEFAULT with t in host, for each search result
Blockers == [u \in ResolverPool |-> {t \in _THIRD_DEFAULT : Contains(HostOf[u], t)}]

\* any(t in host for t in third), host the host of u
Blocked(u, third) == Blockers[u] \cap third # {}

\* out after "if host not in out: out.append(host)"
AppendNew(out, host) == IF host \in Range(out) THEN out ELSE Append(out, host)

\* the loop over the search results
RECURSIVE SearchLoop(_, _, _, _)
SearchLoop(out, urls, third, top_k) ==
    IF urls = <<>> THEN out
    ELSE IF HostOf[Head(urls)] = "" \/ Blocked(Head(urls), third)
    THEN SearchLoop(out, Tail(urls), third, top_k)
    ELSE IF Len(AppendNew(out, HostOf[Head(urls)])) >= top_k
    THEN AppendNew(out, HostOf[Head(urls)])
    ELSE SearchLoop(AppendNew(out, HostOf[Head(urls)]), Tail(urls), third, top_k)

\* a variant that keeps every entry
RECURSIVE Dedup_keep(_, _)
Dedup_keep(ds, seen) == ds

\* list(dict.fromkeys(out))
RECURSIVE Dedup(_, _)
Dedup(ds, seen) ==
    IF ds = <<>> THEN <<>>
    ELSE IF Head(ds) \in seen THEN Dedup(Tail(ds), seen)
    ELSE <<Head(ds)>> \o Dedup(Tail(ds), seen \cup {Head(ds)})

\* out[:top_k], top_k >= 0
Take(s, k) == SubSeq(s, 1, IF k < Len(s) THEN k ELSE Len(s))

\* lines 152-156: unique, cap, cache the first entry.  known is the number
\* of domains the alias table and the cache gave, searched whether the
\* search fallback ran, cached what the cache held at the call.
CacheFirst(sm, name, out, known, searched, cached) ==
    [val |-> out, known |-> known, searched |-> searched, cached |-> cached,
     site_mapping |-> IF out = <<>> THEN sm ELSE add_site_mapping(sm, name, out[1])]

\* lines 139-153: the search fallback when out is empty
Fallback(sm, name, top_k, allow_wechat, urls, cached, known) ==
    IF known = <<>>
    THEN CacheFirst(sm, name,
                Take(Dedup(SearchLoop(<<>>, urls, Third(name, allow_wechat), top_k), {}), top_k),
                0, TRUE, cached)
    ELSE CacheFirst(sm, name, Take(Dedup(known, {}), top_k), Len(known), FALSE, cached)

Lookup(sm, name, top_k, allow_wechat, urls, cached) ==
    Fallback(sm, name, top_k, allow_wechat, urls, cached, Known(name, cached))

resolve_multi(sm, name, top_k, allow_wechat, urls) ==
    IF Stripped[name] = ""
    THEN [val |-> <<>>, known |-> 0, searched |-> FALSE, cached |-> "", site_mapping |-> sm]
    ELSE Lookup(sm, Stripped[name], top_k, allow_wechat, urls,
                get_site_domain(sm, Stripped[name]))

(***************************************************************************)
(* Calls of resolve_multi: a first call on a new database and, after a     *)
(* call that found the cache empty, a later call for the same name.  urls  *)
(* is what search_multi returns for the name if it is asked.               *)
(***************************************************************************)

\* the result and the cache after the call
ResolvedTo(r) ==
    /\ ret' = [val |-> r.val, known |-> r.known, searched |-> r.searched,
               cached |-> r.cached]
    /\ site_mapping' = r.site_mapping

CallResolveMulti ==
    /\ fn = "none"
    /\ \E name \in ResolverNames, top_k \in TopKs, allow_wechat \in BOOLEAN,
          urls \in ResolverHits :
        /\ fn' = "resolve_multi"
        /\ arg' = [name |-> name, top_k |-> top_k, allow_wechat |-> allow_wechat,
                   urls |-> urls]
        /\ ResolvedTo(resolve_multi(site_mapping, name, top_k, allow_wechat, urls))
    /\ UNCHANGED <<crawlvars, ml_state, crawl_results, training_data, logvars>>

CallResolveMultiAgain ==
    /\ fn = "resolve_multi" /\ ret.cached = ""
    /\ \E top_k \in TopKs, allow_wechat \in BOOLEAN, urls \in ResolverHits :
        /\ fn' = "resolve_multi"
        /\ arg' = [name |-> arg.name, top_k |-> top_k, allow_wechat |-> allow_wechat,
                   urls |-> urls]
        /\ ResolvedTo(resolve_multi(site_mapping, arg.name, top_k, allow_wechat, urls))
    /\ UNCHANGED <<crawlvars, ml_state, crawl_results, training_data, logvars>>

NextResolver ==
    \/ CallResolveMulti
    \/ CallResolveMultiAgain

SpecResolver == InitFn /\ [][NextResolver]_vars

(***************************************************************************)
(* CrawlerManager.crawl                                                    *)
(***************************************************************************)

\* list(dict.fromkeys([d for d in domains if d]))
RECURSIVE FirstSeen(_, _)
FirstSeen(ds, seen) ==
    IF ds = <<>> THEN <<>>
    ELSE IF Head(ds) = "" \/ Head(ds) \in seen THEN FirstSeen(Tail(ds), seen)
    ELSE <<Head(ds)>> \o FirstSeen(Tail(ds), seen \cup {Head(ds)})

\* the loop over media_names: a name whose resolution raises adds nothing
RECURSIVE Resolved(_, _)
Resolved(outs, k) ==
    IF k > Len(outs) THEN <<>>
    ELSE (IF outs[k].exc THEN <<>> ELSE outs[k].val) \o Resolved(outs, k + 1)

\* resolve_multi caches the first entry of every non-empty list it returns
RECURSIVE CachedFirst(_, _, _, _)
CachedFirst(sm, names, outs, k) ==
    IF k > Len(names) THEN sm
    ELSE IF outs[k].exc \/ outs[k].val = <<>> THEN CachedFirst(sm, names, outs, k + 1)
    ELSE CachedFirst(add_site_mapping(sm, Strip(names[k]), outs[k].val[1]), names, outs, k + 1)

\* discover_domains_by_keywords(keywords) without the "or [None]"
OrNone_empty(ds) == ds

\* discover_domains_by_keywords(keywords) or [None]
OrNone(ds) == IF ds = <<>> THEN <<"">> ELSE ds

ResolveDomains(media_names, outs, discovered) ==
    IF media_names # <<>> /\ FirstSeen(Resolved(outs, 1), {}) # <<>>
    THEN FirstSeen(Resolved(outs, 1), {})
    ELSE OrNone(discovered)

\* what step 0 looked up: the domains appended in the loop over media_names,
\* and the domains discover_domains_by_keywords returned if it was called
Lookups(media_names, outs, discovered) ==
    [raw |-> IF media_names = <<>> THEN <<>> ELSE Resolved(outs, 1),
     discovered |-> IF media_names # <<>> /\ FirstSeen(Resolved(outs, 1), {}) # <<>>
                    THEN <<>> ELSE discovered]

\* the merge loop without its seen_urls test
RECURSIVE Merge_unseen(_, _, _, _, _)
Merge_unseen(res, seen, its, src, chan) ==
    IF its = <<>> THEN [results |-> res, seen_urls |-> seen]
    ELSE LET it == Head(its)  u == Get(it, "url") IN
         Merge_unseen(Append(res, setdefault(setdefault(it, "source", src), "channel", chan)),
                      seen \cup {u}, Tail(its), src, chan)

\* the merge loops of channels 1 and 2
RECURSIVE Merge(_, _, _, _, _)
Merge(res, seen, its, src, chan) ==
    IF its = <<>> THEN [results |-> res, seen_urls |-> seen]
    ELSE LET it == Head(its)  u == Get(it, "url") IN
         IF u # "" /\ u \notin seen
         THEN Merge(Append(res, setdefault(setdefault(it, "source", src), "channel", chan)),
                    seen \cup {u}, Tail(its), src, chan)
         ELSE Merge(res, seen, Tail(its), src, chan)

\* the merge loop of channel W, with its seen_keys
RECURSIVE MergeWx(_, _, _, _)
MergeWx(res, seen, keys, its) ==
    IF its = <<>> THEN [results |-> res, seen_urls |-> seen]
    ELSE LET it == Head(its)  u == Get(it, "url")  k == WxKey[u] IN
         IF u # "" /\ u \notin seen /\ k \notin keys
         THEN MergeWx(Append(res, setdefault(setdefault(it, "source", "WeChat MP"),
                                             "channel", "wechat")),
                      seen \cup {u}, keys \cup {k}, Tail(its))
         ELSE MergeWx(res, seen, keys, Tail(its))

\* results and seen_urls after a merge loop
Merged(m) == results' = m.results /\ seen_urls' = m.seen_urls

\* if not keywords: return []
NoKeywords ==
    /\ pc = "start"
    /\ call.keywords = <<>>
    /\ pc' = "done"
    /\ UNCHANGED <<fnvars, storevars, limiter, call, resolved, domains, di, items, results, seen_urls, hits>>

\* 0) resolve candidate domains
Resolve ==
    /\ pc = "start"
    /\ call.keywords # <<>>
    /\ \E outs \in ResolveOutcomes(call.media_names),
          discovered \in DiscoverOutcomes :
           /\ resolved' = Lookups(call.media_names, outs, discovered)
           /\ domains' = ResolveDomains(call.media_names, outs, discovered)
           /\ site_mapping' = CachedFirst(site_mapping, call.media_names, outs, 1)
    /\ di' = 1
    /\ pc' = "ch1"
    /\ UNCHANGED <<fnvars, limiter, call, items, results, seen_urls, hits>>
    /\ UNCHANGED <<ml_state, crawl_results, training_data, logvars>>

\* 1) one domain of the ch-1 loop: crawl, then merge
Channel1 ==
    /\ pc = "ch1"
    /\ \E urls \in SearchHits :
        /\ Len(urls) <= MaxHits - hits
        /\ items' = OrEmpty(SearchCrawl(urls, domains[di], call.use_advanced))
        /\ Merged(Merge(results, seen_urls, items', domains[di], "search"))
        /\ hits' = hits + Len(urls)
    /\ IF di < Len(domains)
       THEN di' = di + 1 /\ pc' = "ch1"
       ELSE di' = 1 /\ pc' = "filter"
    /\ UNCHANGED <<fnvars, storevars, limiter, call, resolved, domains>>

\* 2) the date filter; within_range is called outside any try
DateFilter ==
    /\ pc = "filter"
    /\ LET Verdict(it) == DateVerdict[Get(it, "date"), call.start_date, call.end_date]
           Keep(it) == Verdict(it).val
                       \/ (call.strict_date = 0 /\ Strip(Get(it, "date")) = "")
       IN  IF ~Ranged(call.start_date, call.end_date)
           THEN pc' = "ch2" /\ UNCHANGED results
           ELSE IF \E k \in 1..Len(results) : Verdict(results[k]).exc
           THEN pc' = "raised" /\ UNCHANGED results
           ELSE pc' = "ch2" /\ results' = SelectSeq(results, Keep)
    /\ UNCHANGED <<fnvars, storevars, limiter, call, resolved, domains, di, items, seen_urls, hits>>

\* 2.5) one domain of the ch-2 loop; the no-domain entry is skipped
Channel2 ==
    /\ pc = "ch2"
    /\ IF domains[di] = ""
       THEN UNCHANGED <<items, results, seen_urls, hits>>
       ELSE \E urls \in PatternHits :
             /\ Len(urls) <= MaxHits - hits
             /\ items' = _run_pattern(urls, domains[di], call.start_date, call.end_date)
             /\ Merged(Merge(results, seen_urls, items', domains[di], "pattern"))
             /\ hits' = hits + Len(urls)
    /\ IF di < Len(domains)
       THEN di' = di + 1 /\ pc' = "ch2"
       ELSE di' = 0 /\ pc' = "wechat"
    /\ UNCHANGED <<fnvars, storevars, limiter, call, resolved, domains>>

\* channel W run whether the caller allowed it or not
ChannelW_ungated ==
    /\ pc = "wechat"
    /\ \E found \in WechatHits :
          /\ Len(found) <= MaxHits - hits
          /\ items' = OrEmpty(WechatCrawl(found, call.start_date, call.end_date))
          /\ Merged(MergeWx(results, seen_urls, {WxKey[u] : u \in seen_urls}, items'))
          /\ hits' = hits + Len(found)
    /\ pc' = "relevance"
    /\ UNCHANGED <<fnvars, storevars, limiter, call, resolved, domains, di>>

\* 3) channel W, when allowed
ChannelW ==
    /\ pc = "wechat"
    /\ IF call.allow_wechat /\ _WECHAT_READY
       THEN \E found \in WechatHits :
             /\ Len(found) <= MaxHits - hits
             /\ items' = OrEmpty(WechatCrawl(found, call.start_date, call.end_date))
             /\ Merged(MergeWx(results, seen_urls, {WxKey[u] : u \in seen_urls}, items'))
             /\ hits' = hits + Len(found)
       ELSE UNCHANGED <<items, results, seen_urls, hits>>
    /\ pc' = "relevance"
    /\ UNCHANGED <<fnvars, storevars, limiter, call, resolved, domains, di>>

\* 4) the relevance filter, 5) the provisional label, and the return
IsRelevant(it) == Relevant[it]
Finish ==
    /\ pc = "relevance"
    /\ LET kept == SelectSeq(results, IsRelevant)
       IN  results' = [k \in 1..Len(kept) |->
                         setdefault(kept[k], "predicted_label", Label[kept[k]])]
    /\ items' = <<>>
    /\ pc' = "done"
    /\ UNCHANGED <<fnvars, storevars, limiter, call, resolved, domains, di, seen_urls, hits>>

Init ==
    /\ FnIdle
    /\ StoreIdle
    /\ pc = "start"
    /\ call \in Calls
    /\ resolved = [raw |-> <<>>, discovered |-> <<>>] /\ limiter = NoLimiter
    /\ domains = <<>> /\ di = 0
    /\ items = <<>> /\ results = <<>> /\ seen_urls = {} /\ hits = 0

Next ==
    \/ NoKeywords
    \/ Resolve
    \/ Channel1
    \/ DateFilter
    \/ Channel2
    \/ ChannelW
    \/ Finish

Spec == Init /\ [][Next]_vars

\* crawls over several media names, whose lists of domains overlap
CallsDomains ==
    [keywords     : {<<>>, TheKeywords},
     media_names  : {<<>>, <<"dayoo">>, <<"gzrb", "dayoo">>},
     start_date   : {""},
     end_date     : {"", "2025-08-02"},
     use_advanced : {FALSE},
     strict_date  : {1},
     allow_wechat : BOOLEAN]

InitDomains ==
    /\ FnIdle
    /\ StoreIdle
    /\ pc = "start"
    /\ call \in CallsDomains
    /\ resolved = [raw |-> <<>>, discovered |-> <<>>] /\ limiter = NoLimiter
    /\ domains = <<>> /\ di = 0
    /\ items = <<>> /\ results = <<>> /\ seen_urls = {} /\ hits = 0

SpecDomains == InitDomains /\ [][Next]_vars


(***************************************************************************)
(* Claims about the helper functions (checked under SpecFn)                *)
(***************************************************************************)

\* a date string that names a day of the calendar; a bound that is absent or one
ValidDate(s) == s # "" /\ strptime(s).ok
BoundOk(s) == s = "" \/ strptime(s).ok
DayNumber(s) == LET t == strptime(s) IN (t.y * 12 + t.m) * 31 + t.d
Inside(d, s, e) ==
    /\ (s = "" \/ DayNumber(s) <= DayNumber(d))
    /\ (e = "" \/ DayNumber(d) <= DayNumber(e))

\* C3 (as claimed): two WeChat article URLs with the same (mid, idx) pair, in
\* any parameter order and with any tracking parameters, get the same key, and
\* _normalize_wx_url is idempotent: normalizing a key returns the key.
C3_SameKeyAndIdempotent ==
    /\ (fn = "normalize_pair" =>
            /\ ret[1] = ret[2]
            /\ ret[1] = "mpwx:mid=" \o arg.mid \o "&idx=" \o arg.idx)
    /\ (fn = "normalize_again" => ret = arg.u)

\* C4: within_range is false for an empty (unknown) date whenever start or end
\* is given, and for a valid date with bounds that are absent or valid it is
\* true exactly when start <= date <= end, both ends included, an absent bound
\* not constraining.
C4_WithinRangeInclusive ==
    fn = "within_range" =>
        /\ (arg.dstr = "" /\ (arg.start # "" \/ arg.end # "")) => ret = Returns(FALSE)
        /\ (ValidDate(arg.dstr) /\ BoundOk(arg.start) /\ BoundOk(arg.end))
              => ret = Returns(Inside(arg.dstr, arg.start, arg.end))

\* C4 witness: a valid date equal to the start bound, with an end bound, passes.
C4_Witness ==
    /\ fn = "within_range"
    /\ ValidDate(arg.dstr) /\ ValidDate(arg.start) /\ ValidDate(arg.end)
    /\ DayNumber(arg.dstr) = DayNumber(arg.start)
    /\ ret = Returns(TRUE)

\* C5 (as claimed): within_range is true for an empty (unknown) date when start
\* and end are both empty.
C5_EmptyDatePassesWithoutRange ==
    (fn = "within_range" /\ arg.dstr = "" /\ arg.start = "" /\ arg.end = "")
        => ret = Returns(TRUE)

\* the title and excerpt the filter judges: the record's own, or the fetched one
\* when the record's is empty and the record has a url
EffectiveTitle(a) ==
    IF a.it.title # "" THEN a.it.title
    ELSE IF a.it.url # "" THEN a.fetched.title ELSE ""
EffectiveExcerpt(a) ==
    IF a.it.excerpt # "" THEN a.it.excerpt
    ELSE IF a.it.url # "" THEN a.fetched.excerpt ELSE ""

\* the title equals a requested keyword
ExactKeyword(title, keywords) == \E i \in 1..Len(keywords) : keywords[i] = title

\* C9 (as claimed): any record whose title is shorter than 6 or whose excerpt is
\* shorter than 30 characters is dropped (a 5-character title even with a keyword
\* match), and a record whose 6-character title equals a keyword, with an
\* excerpt of at least 30 characters, is kept.
C9_Original ==
    fn = "looks_relevant" =>
        /\ (Len(arg.it.title) < 6 \/ Len(arg.it.excerpt) < 30) => ret = FALSE
        /\ (/\ Len(arg.it.title) = 6
            /\ ExactKeyword(arg.it.title, arg.keywords)
            /\ Len(arg.it.excerpt) >= 30) => ret = TRUE

\* C9 (amended): the lengths are those of the title and excerpt the filter
\* judges, that is after an empty title or excerpt was filled by the fetch: a
\* judged title under 6 or a judged excerpt under 30 characters drops the record
\* (so every non-empty title of 5 characters, keyword match or not), and a record
\* whose 6-character title equals a keyword, with an excerpt of at least 30
\* characters, is kept.
C9_LengthThreshold ==
    fn = "looks_relevant" =>
        /\ (Len(EffectiveTitle(arg)) < 6 \/ Len(EffectiveExcerpt(arg)) < 30) => ret = FALSE
        /\ (arg.it.title # "" /\ Len(arg.it.title) < 6) => ret = FALSE
        /\ (arg.it.excerpt # "" /\ Len(arg.it.excerpt) < 30) => ret = FALSE
        /\ (/\ Len(arg.it.title) = 6
            /\ ExactKeyword(arg.it.title, arg.keywords)
            /\ Len(arg.it.excerpt) >= 30) => ret = TRUE

\* C9 witness: a 6-character title equal to a keyword with an excerpt of exactly
\* 30 characters is kept.
C9_Witness ==
    /\ fn = "looks_relevant"
    /\ Len(arg.it.title) = 6 /\ ExactKeyword(arg.it.title, arg.keywords)
    /\ Len(arg.it.excerpt) = 30
    /\ ret = TRUE

\* the URL path (lowered, as the filter reads it) holds a blacklisted key
PathHasBlockKey(u) ==
    LET path == urlparse(Lower(u)).path
    IN  u # "" /\ \E k \in BLOCK_KEYS : Contains(path, k)
\* the title contains a requested keyword, letter case ignored
HasKeywordNoCase(title, keywords) ==
    LET low == Lower(title)
    IN  \E i \in 1..Len(keywords) : Contains(low, Lower(keywords[i]))
\* the title contains a requested non-empty keyword as written
HasKeyword(title, keywords) ==
    \E i \in 1..Len(keywords) : keywords[i] # "" /\ Contains(title, keywords[i])

\* C10 (as claimed): a record whose URL path contains a blacklisted key is
\* dropped unless its title contains a requested keyword, and a record whose
\* title contains a requested keyword is not dropped because of the blacklist.
C10_Original ==
    fn = "looks_relevant" =>
        /\ (PathHasBlockKey(arg.it.url) /\ ~HasKeywordNoCase(arg.it.title, arg.keywords))
              => ret = FALSE
        /\ (/\ PathHasBlockKey(arg.it.url)
            /\ HasKeyword(arg.it.title, arg.keywords)
            /\ Len(arg.it.title) >= 6 /\ Len(EffectiveExcerpt(arg)) >= 30) => ret = TRUE

\* C10 (amended): the title is the one the filter judges, that is the fetched
\* title when the record's own title is empty, compared without letter case: a
\* record on a blacklisted path is dropped unless that title contains a requested
\* keyword, and a record whose own title contains a requested keyword is not
\* dropped because of the blacklist (it is kept when it is long enough).
C10_PathBlacklist ==
    fn = "looks_relevant" =>
        /\ (PathHasBlockKey(arg.it.url) /\ ~HasKeywordNoCase(EffectiveTitle(arg), arg.keywords))
              => ret = FALSE
        /\ (/\ PathHasBlockKey(arg.it.url)
            /\ HasKeyword(arg.it.title, arg.keywords)
            /\ Len(arg.it.title) >= 6 /\ Len(EffectiveExcerpt(arg)) >= 30) => ret = TRUE

\* C10 witness: a record on a blacklisted path whose title holds a keyword is kept.
C10_Witness ==
    /\ fn = "looks_relevant"
    /\ PathHasBlockKey(arg.it.url)
    /\ HasKeyword(arg.it.title, arg.keywords)
    /\ ret = TRUE

(***************************************************************************)
(* Claims about CrawlerManager.crawl (checked under Spec)                  *)
(***************************************************************************)

Ranging == Ranged(call.start_date, call.end_date)
Count(u) == Cardinality({j \in 1..Len(results) : results[j].url = u})

\* Channel 2 has just returned a record for u and the merged set holds no
\* pattern record for it: the merge skipped it as already seen, so Channel 1
\* had discovered u before.
BothFound(u) ==
    /\ pc \in {"ch2", "wechat"}
    /\ \E k \in 1..Len(items) :
          Get(items[k], "channel") = "pattern" /\ items[k].url = u
    /\ ~\E j \in 1..Len(results) :
          results[j].url = u /\ results[j].channel = "pattern"

NoTwoWithSameUrl ==
    \A i, j \in 1..Len(results) : results[i].url = results[j].url => i = j

C2_NoEqualNormalizedUrls ==
    pc = "done" =>
        \A i, j \in 1..Len(results) :
            WxKey[results[i].url] = WxKey[results[j].url] => i = j

\* the dates of the records, judged by the calendar and not by within_range
InRange ==
    [d \in {it.date : it \in Records}, s \in StartDates, e \in EndDates |->
        ValidDate(d) /\ BoundOk(s) /\ BoundOk(e) /\ Inside(d, s, e)]

\* C6: when crawl is called with a date range, every returned record whose
\* date field is non-empty has a date inside the inclusive range, whichever
\* channel produced it.
C6_DatesInsideRange ==
    (pc = "done" /\ Ranging) =>
        \A k \in 1..Len(results) :
            results[k].date # "" =>
                InRange[results[k].date, call.start_date, call.end_date]

\* C6 witness: a strict crawl with a start date has returned dated records
\* of all three channels.
C6_Witness ==
    /\ pc = "done" /\ Ranging /\ call.strict_date = 1
    /\ \A c \in {"search", "pattern", "wechat"} :
          \E k \in 1..Len(results) :
              results[k].channel = c /\ results[k].date # ""

\* C7 (as claimed): when a date range is requested in strict mode, no record
\* with an empty date is in the returned list.
C7_NoUndatedUnderRange ==
    (pc = "done" /\ Ranging /\ call.strict_date = 1) =>
        \A k \in 1..Len(results) : results[k].date # ""

\* C8 (as claimed): whatever the arguments and whatever the searches, fetches
\* and channels do, crawl never raises.
C8_NeverRaises == pc # "raised"

\* some requested non-empty keyword occurs in the record's own title or excerpt
KeywordOccurs(it) ==
    \E i \in 1..Len(call.keywords) :
        /\ call.keywords[i] # ""
        /\ (Contains(it.title, call.keywords[i]) \/ Contains(it.excerpt, call.keywords[i]))

\* C11: every record returned by crawl carries predicted_label in {0, 1},
\* equal to 1 exactly when some requested non-empty keyword occurs in that
\* record's title or excerpt, and 0 otherwise.
C11_LabelIsKeywordHit ==
    pc = "done" =>
        \A k \in 1..Len(results) :
            /\ "predicted_label" \in DOMAIN results[k]
            /\ results[k].predicted_label \in {0, 1}
            /\ (results[k].predicted_label = 1 <=> KeywordOccurs(results[k]))

\* C11 witness: crawl has returned a record labelled 1 and a record labelled
\* 0 (the relevance filter kept the latter on its backfilled excerpt).
C11_Witness ==
    /\ pc = "done"
    /\ \E k \in 1..Len(results) : results[k].predicted_label = 1
    /\ \E k \in 1..Len(results) : results[k].predicted_label = 0

\* the step of crawl at its WeChat position, taken without the opt-in: no
\* search ran, no list came back, nothing was merged
WechatNotInvoked ==
    (pc = "wechat" /\ ~call.allow_wechat) =>
        (hits' = hits /\ items' = items /\ results' = results /\ seen_urls' = seen_urls)

\* C12: with allow_wechat false crawl never invokes WechatCrawler, and every
\* returned record has a non-empty url and a channel tag in {search, pattern}.
C12_WechatOnlyOnOptIn ==
    /\ [][WechatNotInvoked]_vars
    /\ []((pc = "done" /\ ~call.allow_wechat) =>
            \A k \in 1..Len(results) :
                results[k].url # "" /\ results[k].channel \in {"search", "pattern"})

\* C12 witness: a crawl without the opt-in has passed its WeChat position and
\* returned records of both other channels.
C12_Witness ==
    /\ pc = "done" /\ ~call.allow_wechat
    /\ \A c \in {"search", "pattern"} :
          \E k \in 1..Len(results) : results[k].channel = c

\* C13 (as claimed): when the media name resolves to a domain, with no date
\* range and WeChat disabled, every record crawl returns has a source field
\* containing that resolved domain.
C13_SourceContainsDomain ==
    (/\ pc = "done" /\ call.media_names # <<>> /\ Len(domains) = 1 /\ domains[1] # ""
     /\ ~Ranging /\ ~call.allow_wechat) =>
        \A k \in 1..Len(results) : Contains(results[k].source, domains[1])

(***************************************************************************)
(* C14: train_and_eval on fewer than 20 samples returns, without raising   *)
(* and without training a model, the insufficient-data result that carries *)
(* the sample count; on 20 samples or more it does not return that result: *)
(* 19 samples are rejected, 20 go on to the evaluation.                    *)
(***************************************************************************)
C14_InsufficientSamples ==
    fn = "train_and_eval" =>
        /\ arg.n <= 19 =>
              /\ ~ret.exc /\ ~ret.trained
              /\ ret.val = [ok |-> FALSE, reason |-> "not-enough-samples", n |-> arg.n]
        /\ arg.n >= 20 => (ret.exc \/ ret.val.ok)

C14_Witness ==
    /\ fn = "train_and_eval" /\ arg.n = 19 /\ arg.pos = 9
    /\ ~ret.exc /\ ~ret.val.ok /\ ret.val.n = 19

(***************************************************************************)
(* C15: train_and_eval on 20 samples or more returns precision, recall and *)
(* F1 each within [0, 1], train and test sizes that sum to the number of   *)
(* samples, and a boolean pass_gate that is f1 >= threshold.               *)
(***************************************************************************)
InUnit(f) == 0 <= f.num /\ f.num <= f.den

C15_MetricsOnEnoughSamples ==
    (fn = "train_and_eval" /\ arg.n >= 20) =>
        /\ ~ret.exc /\ ret.val.ok
        /\ InUnit(ret.val.precision) /\ InUnit(ret.val.recall) /\ InUnit(ret.val.f1)
        /\ ret.val.n_train + ret.val.n_test = arg.n
        /\ ret.val.pass_gate \in BOOLEAN
        /\ ret.val.pass_gate = (ret.val.f1.num * 100 >= arg.threshold * ret.val.f1.den)

(***************************************************************************)
(* C16: a call of train_and_eval, whatever it comes to, leaves the         *)
(* persisted ML state (model, threshold, active) as it was; the state      *)
(* changes only in a call of set_ml_state.                                 *)
(***************************************************************************)
EvalKeepsMlState ==
    /\ fn' = "train_and_eval" => ml_state' = ml_state
    /\ ml_state' # ml_state => fn' = "set_ml_state"

C16_EvalLeavesMlState == [][EvalKeepsMlState]_vars

C16_Witness ==
    /\ fn = "train_and_eval" /\ arg.model_name = "lr" /\ arg.threshold = 70
    /\ ~ret.exc /\ ret.val.ok /\ ret.val.pass_gate
    /\ ml_state = [model |-> "nb", threshold |-> 100, active |-> 0]

(***************************************************************************)
(* C17: save_review_results skips every item that lacks a url: no          *)
(* crawl_results row and no training sample is written for it, and the     *)
(* count returned is the number of the items that carry a url.             *)
(***************************************************************************)
WithUrl(its) == {k \in 1..Len(its) : GetOr(its[k], "url", "") # ""}

C17_UrlLessItemsSkipped ==
    fn = "save_review_results" =>
        /\ ret = Cardinality(WithUrl(arg.items))
        /\ Len(crawl_results) = Cardinality(WithUrl(arg.items))
        /\ \A k \in 1..Len(crawl_results) : crawl_results[k].url # ""
        /\ Len(training_data) <= Cardinality(WithUrl(arg.items))

(***************************************************************************)
(* C18: for every name and every top_k >= 0, the list resolve_multi        *)
(* returns has no domain twice and at most top_k entries, and when it is   *)
(* not empty its first entry is the domain the cache holds for the name    *)
(* after the call.                                                         *)
(***************************************************************************)
C18_UniqueCappedCached ==
    fn = "resolve_multi" =>
        /\ \A i, j \in 1..Len(ret.val) : i # j => ret.val[i] # ret.val[j]
        /\ Len(ret.val) <= arg.top_k
        /\ ret.val # <<>> =>
              /\ Strip(arg.name) \in DOMAIN site_mapping
              /\ site_mapping[Strip(arg.name)] = ret.val[1]

C18_Witness ==
    /\ fn = "resolve_multi" /\ arg.name = "guangzhou ribao" /\ arg.top_k = 2
    /\ ret.cached = "dayoo.com" /\ ret.known = 3
    /\ ret.val = <<"dayoo.com", "gzdaily.dayoo.com">>
    /\ site_mapping["guangzhou ribao"] = "dayoo.com"

(***************************************************************************)
(* C19: when the alias table and the cache together give fewer than top_k  *)
(* domains for a name, resolve_multi still consults the search fallback;   *)
(* so a name that was first resolved by search resolves to the same        *)
(* candidates on a later call with the same arguments and search results.  *)
(***************************************************************************)
UnderProduced ==
    fn = "resolve_multi" /\ Strip(arg.name) # "" /\ ret.known < arg.top_k

SameOnLaterCall ==
    (/\ fn = "resolve_multi" /\ ret.searched /\ ret.val # <<>>
     /\ fn' = "resolve_multi" /\ arg' = arg)
        => ret'.val = ret.val

C19_SearchStillConsulted ==
    /\ [](UnderProduced => ret.searched)
    /\ [][SameOnLaterCall]_vars

(***************************************************************************)
(* C20: the search fallback of resolve_multi never returns a host of the   *)
(* third-party blocklist, and it returns the WeChat article host only when *)
(* allow_wechat is true and the name is that of a WeChat-style account     *)
(* (by its suffix or by the platform "wechat" of its alias).               *)
(***************************************************************************)
IsWechatHost(h) == Contains(h, "weixin.qq.com")

C20_SearchExcludesThirdParties ==
    (fn = "resolve_multi" /\ ret.searched) =>
        \A k \in 1..Len(ret.val) :
            /\ \A t \in _THIRD_DEFAULT : ~Contains(ret.val[k], t)
            /\ IsWechatHost(ret.val[k]) =>
                  (arg.allow_wechat /\ WechatStyle[Strip(arg.name)])

(***************************************************************************)
(* scraping/patterns.py: PatternCrawler._collect_links                     *)
(***************************************************************************)

\* what _extract_links finds in a page (article, node and list-like links)
\* and what CONTENT_ANY finds in its text; html FALSE is a failed fetch
LinkPage(arts, nodes, lists, content) ==
    [html |-> TRUE, arts |-> arts, nodes |-> nodes, lists |-> lists, content |-> content]
NoLinkPage == [html |-> FALSE, arts |-> <<>>, nodes |-> <<>>, lists |-> <<>>, content |-> <<>>]

SeedGz == "https://news.dayoo.com/guangzhou/"
SeedNews == "https://news.dayoo.com/"
NodeOne == "https://gzdaily.dayoo.com/pc/node_1.htm"
NodeOnePage2 == "https://gzdaily.dayoo.com/pc/node_1_2.htm"
ListGz == "https://news.dayoo.com/guangzhou/139995.shtml"
ListZw == "https://news.dayoo.com/guangzhou/139996.shtml"
IndexDay1 == "https://gzdaily.dayoo.com/h5/html5/2025-08/01/"
IndexDay2 == "https://gzdaily.dayoo.com/h5/html5/2025-08/02/"
UrlH5a == "https://gzdaily.dayoo.com/h5/html5/2025-08/01/content_1_1.htm"
UrlH5b == "https://gzdaily.dayoo.com/h5/html5/2025-08/02/content_1_2.htm"

\* the pages of the site: a seed that links an article twice, a second seed
\* that links what the first does, a node with a second page, two list-like
\* pages (one with <a> links, one with links in a script only), and the
\* date directories of the H5 edition
LinkWeb ==
    (SeedGz :> LinkPage(<<UrlBay, UrlNotice, UrlBay>>, <<NodeOne>>, <<ListGz>>, <<>>))
    @@ (SeedNews :> LinkPage(<<UrlNotice, UrlBroken>>, <<NodeOne>>, <<ListGz, ListZw>>, <<>>))
    @@ (NodeOne :> LinkPage(<<UrlBroken, UrlBridge>>, <<>>, <<>>, <<>>))
    @@ (NodeOnePage2 :> LinkPage(<<UrlBridge, UrlBridgeDay>>, <<>>, <<>>, <<>>))
    @@ (ListGz :> LinkPage(<<UrlBridge, UrlH5a, UrlH5a>>, <<>>, <<>>, <<UrlH5a>>))
    @@ (ListZw :> LinkPage(<<>>, <<>>, <<>>, <<UrlH5a, UrlH5b, UrlH5a>>))
    @@ (IndexDay1 :> LinkPage(<<>>, <<>>, <<>>, <<UrlH5a, UrlH5b>>))
    @@ (IndexDay2 :> LinkPage(<<>>, <<>>, <<>>, <<UrlH5b, UrlH5a, UrlH5b>>))

\* _fetch(url): the page, None when the site does not serve it
LinkFetch(down, url) ==
    IF url \in DOMAIN LinkWeb /\ url \notin down THEN LinkWeb[url] ELSE NoLinkPage

\* the index after the digits that start at i
RECURSIVE DigitsEnd(_, _)
DigitsEnd(s, i) == IF IsDigit(Slice(s, i, i)) THEN DigitsEnd(s, i + 1) ELSE i

\* the end of (?:_\d+)? at e
OptionalPageEnd(url, e) ==
    IF Slice(url, e, e) = "_" /\ DigitsEnd(url, e + 1) > e + 1
    THEN DigitsEnd(url, e + 1) ELSE e

\* re.search(r"(node_\d+)(?:_\d+)?\.htm", url).group(1), "" without a match
RECURSIVE NodeHeadFrom(_, _)
NodeHeadFrom(url, i) ==
    IF FindFrom(url, "node_", i) = 0 THEN ""
    ELSE IF /\ DigitsEnd(url, FindFrom(url, "node_", i) + 5) > FindFrom(url, "node_", i) + 5
            /\ \/ Slice(url, DigitsEnd(url, FindFrom(url, "node_", i) + 5),
                        DigitsEnd(url, FindFrom(url, "node_", i) + 5) + 3) = ".htm"
               \/ Slice(url, OptionalPageEnd(url, DigitsEnd(url, FindFrom(url, "node_", i) + 5)),
                        OptionalPageEnd(url, DigitsEnd(url, FindFrom(url, "node_", i) + 5)) + 3)
                  = ".htm"
         THEN Slice(url, FindFrom(url, "node_", i),
                    DigitsEnd(url, FindFrom(url, "node_", i) + 5) - 1)
    ELSE NodeHeadFrom(url, FindFrom(url, "node_", i) + 1)

\* url.rsplit("/", 1)[0] + "/"
RECURSIVE RootOf(_, _)
RootOf(url, i) ==
    IF i = 0 THEN url \o "/"
    ELSE IF Slice(url, i, i) = "/" THEN Slice(url, 1, i)
    ELSE RootOf(url, i - 1)

\* str(i) of a number below 100, and "%02d" % i
Str(i) ==
    IF i < 10 THEN Slice(Digits, i + 1, i + 1)
    ELSE Slice(Digits, (i \div 10) + 1, (i \div 10) + 1)
         \o Slice(Digits, (i % 10) + 1, (i % 10) + 1)
Two(i) == IF i < 10 THEN "0" \o Str(i) ELSE Str(i)

\* _iter_node_pages(node_url, max_pages)
_iter_node_pages(node_url, max_pages) ==
    IF NodeHeadFrom(node_url, 1) = "" THEN <<node_url>>
    ELSE <<node_url>>
         \o [k \in 1..(max_pages - 1) |->
                RootOf(node_url, Len(node_url)) \o NodeHeadFrom(node_url, 1)
                \o "_" \o Str(k + 1) \o ".htm"]

\* the loop "if u not in out: out.append(u)"
RECURSIVE Unique(_, _)
Unique(us, out) ==
    IF us = <<>> THEN out
    ELSE Unique(Tail(us), IF \E k \in 1..Len(out) : out[k] = Head(us)
                          THEN out ELSE Append(out, Head(us)))

\* _expand_list_like(list_url, html): the article links of the page, and
\* without any the content_ links of its text, each once
_expand_list_like(pg) == IF pg.arts # <<>> THEN pg.arts ELSE Unique(pg.content, <<>>)

\* cur += timedelta(days=1)
NextDay(d) ==
    IF d.d < DaysInMonth(d.y, d.m) THEN [d EXCEPT !.d = @ + 1]
    ELSE IF d.m < 12 THEN [d EXCEPT !.m = @ + 1, !.d = 1]
    ELSE [d EXCEPT !.y = @ + 1, !.m = 1, !.d = 1]

\* f"https://gzdaily.dayoo.com/h5/html5/{cur.strftime('%Y-%m/%d')}/"
IndexOf(d) ==
    "https://gzdaily.dayoo.com/h5/html5/" \o Str(d.y \div 100) \o Two(d.y % 100)
    \o "-" \o Two(d.m) \o "/" \o Two(d.d) \o "/"

\* the state of _collect_links: its locals, each fetch and each collected
\* URL in the order they happen, and whether it has returned
NoLinks ==
    [seen |-> {}, out |-> <<>>, node_queue |-> <<>>, list_queue |-> <<>>,
     log |-> <<>>, done |-> FALSE]

Fetched(st, url) == [st EXCEPT !.log = Append(@, <<"fetch", url>>)]

\* len(out) > rule.max_links in the place of >=
Capped_late(n, max_links) == n > max_links

\* len(out) >= rule.max_links
Capped(n, max_links) == n >= max_links

\* for u in arts: if u not in seen: seen.add(u); out.append(u); return at the cap
RECURSIVE AddArts(_, _, _)
AddArts(st, us, max_links) ==
    IF us = <<>> \/ st.done THEN st
    ELSE IF Head(us) \in st.seen THEN AddArts(st, Tail(us), max_links)
    ELSE AddArts([st EXCEPT !.seen = @ \cup {Head(us)},
                            !.out = Append(@, Head(us)),
                            !.log = Append(@, <<"add", Head(us)>>),
                            !.done = Capped(Len(st.out) + 1, max_links)],
                 Tail(us), max_links)

\* for n in nodes: if n not in seen: seen.add(n); node_queue.append(n)
RECURSIVE QueueNodes(_, _)
QueueNodes(st, ns) ==
    IF ns = <<>> THEN st
    ELSE IF Head(ns) \in st.seen THEN QueueNodes(st, Tail(ns))
    ELSE QueueNodes([st EXCEPT !.seen = @ \cup {Head(ns)},
                               !.node_queue = Append(@, Head(ns))], Tail(ns))

\* for l in lists: if l not in seen: seen.add(l); list_queue.append(l)
RECURSIVE QueueLists(_, _)
QueueLists(st, ls) ==
    IF ls = <<>> THEN st
    ELSE IF Head(ls) \in st.seen THEN QueueLists(st, Tail(ls))
    ELSE QueueLists([st EXCEPT !.seen = @ \cup {Head(ls)},
                               !.list_queue = Append(@, Head(ls))], Tail(ls))

\* the queues of a seed, when its articles did not reach the cap
SeedQueued(st, pg) == IF st.done THEN st ELSE QueueLists(QueueNodes(st, pg.nodes), pg.lists)

\* 1) seeds; a page that was not fetched has no links
RECURSIVE SeedLoop(_, _, _, _)
SeedLoop(st, seeds, max_links, down) ==
    IF seeds = <<>> \/ st.done THEN st
    ELSE SeedLoop(SeedQueued(AddArts(Fetched(st, Head(seeds)),
                                     LinkFetch(down, Head(seeds)).arts, max_links),
                             LinkFetch(down, Head(seeds))),
                  Tail(seeds), max_links, down)

\* q[:n]
FirstN(q, n) == SubSeq(q, 1, IF Len(q) < n THEN Len(q) ELSE n)

\* the pages of the nodes, eight of each
RECURSIVE NodePages(_)
NodePages(ns) ==
    IF ns = <<>> THEN <<>> ELSE _iter_node_pages(Head(ns), 8) \o NodePages(Tail(ns))

\* 2) node pages
RECURSIVE NodeLoop(_, _, _, _)
NodeLoop(st, pages, max_links, down) ==
    IF pages = <<>> \/ st.done THEN st
    ELSE NodeLoop(AddArts(Fetched(st, Head(pages)),
                          LinkFetch(down, Head(pages)).arts, max_links),
                  Tail(pages), max_links, down)

\* 3) list-like pages
RECURSIVE ListLoop(_, _, _, _)
ListLoop(st, ls, max_links, down) ==
    IF ls = <<>> \/ st.done THEN st
    ELSE ListLoop(AddArts(Fetched(st, Head(ls)),
                          _expand_list_like(LinkFetch(down, Head(ls))), max_links),
                  Tail(ls), max_links, down)

\* the loop of _probe_dayoo_h5_by_dates over the days from cur to ed: the
\* index page of each day is fetched, and its content_ links are kept once
RECURSIVE ProbeLoop(_, _, _, _, _)
ProbeLoop(st, found, cur, ed, down) ==
    IF DateLess(ed, cur) THEN [st |-> st, found |-> found]
    ELSE ProbeLoop(Fetched(st, IndexOf(cur)),
                   Unique(LinkFetch(down, IndexOf(cur)).content, found),
                   NextDay(cur), ed, down)

\* _probe_dayoo_h5_by_dates(start_date, end_date)
_probe_dayoo_h5_by_dates(st, accepted, start_date, end_date, down) ==
    IF ~\E k \in 1..Len(accepted) : Contains(accepted[k], "dayoo.com")
    THEN [st |-> st, found |-> <<>>]
    ELSE IF start_date = "" \/ end_date = "" THEN [st |-> st, found |-> <<>>]
    ELSE IF ~strptime(start_date).ok \/ ~strptime(end_date).ok
         THEN [st |-> st, found |-> <<>>]
    ELSE IF DateLess(strptime(end_date), strptime(start_date))
         THEN ProbeLoop(st, <<>>, strptime(end_date), strptime(start_date), down)
    ELSE ProbeLoop(st, <<>>, strptime(start_date), strptime(end_date), down)

\* 4) the date directories, when nothing was collected
ProbeStep(st, probed, max_links) == AddArts(probed.st, probed.found, max_links)

Probe(st, rule, start_date, end_date, down) ==
    IF st.done \/ st.out # <<>> THEN st
    ELSE IF ~\E k \in 1..Len(rule.domains) : Contains(rule.domains[k], "dayoo.com") THEN st
    ELSE ProbeStep(st, _probe_dayoo_h5_by_dates(st, rule.domains, start_date, end_date, down),
                   rule.max_links)

NodeStep(st, rule, down) ==
    IF st.done \/ ~rule.enable_node_mode \/ st.node_queue = <<>> THEN st
    ELSE NodeLoop(st, NodePages(FirstN(st.node_queue, 30)), rule.max_links, down)

ListStep(st, rule, down) ==
    IF st.done \/ ~rule.enable_list_mode \/ st.list_queue = <<>> THEN st
    ELSE ListLoop(st, FirstN(st.list_queue, 50), rule.max_links, down)

\* _collect_links(rule, start_date, end_date): the list it returns, with the
\* fetches and the collected URLs in the order they happened
_collect_links(rule, start_date, end_date, down) ==
    Probe(ListStep(NodeStep(SeedLoop(NoLinks, rule.seeds, rule.max_links, down),
                            rule, down),
                   rule, down),
          rule, start_date, end_date, down)

MaxLinks == 5

\* the rules: those of dayoo.com with its seeds, with and without the node
\* and the list mode, and a rule of another site
LinkRules ==
    [domains : {<<"dayoo.com", "news.dayoo.com", "gzdaily.dayoo.com">>, <<"ycwb.com">>},
     seeds : {<<SeedGz, SeedNews>>},
     max_links : 1..MaxLinks,
     enable_node_mode : BOOLEAN,
     enable_list_mode : BOOLEAN]

\* the pages the site does not serve during a call
Outages == SUBSET {SeedGz, SeedNews, NodeOne, ListGz} \cup {{SeedGz, SeedNews, IndexDay1}}

CallCollectLinks ==
    /\ fn = "none"
    /\ \E rule \in LinkRules, down \in Outages,
          range \in {<<"", "">>, <<"2025-08-01", "2025-08-02">>,
                     <<"2025-08-02", "2025-08-01">>, <<"2025-08-01", "2025/08/02">>} :
        /\ fn' = "_collect_links"
        /\ arg' = [rule |-> rule, start_date |-> range[1], end_date |-> range[2],
                   down |-> down]
        /\ ret' = _collect_links(rule, range[1], range[2], down)
    /\ UNCHANGED <<crawlvars, storevars>>

NextLinks == CallCollectLinks

SpecLinks == InitFn /\ [][NextLinks]_vars

(***************************************************************************)
(* scraping/wechat.py: the rate limiter of one WechatCrawler.  Time is in  *)
(* tenths of a second; limiter holds the clock (now), _last_ts, and for    *)
(* each call of _fetch the time of the call and the time the limiter let   *)
(* the request start.                                                      *)
(***************************************************************************)

\* min_delay_sec = 0.6
MinDelay == 6

\* no time.sleep at all
Wait_none(dt, min_delay) == 0

\* the argument of time.sleep in _sleep_if_needed, 0 when it does not sleep
Wait(dt, min_delay) == IF dt < min_delay THEN min_delay - dt ELSE 0

\* __init__: _last_ts = 0.0, at time now
NewLimiter(now) == [now |-> now, last_ts |-> 0, calls |-> <<>>, starts |-> <<>>]

\* time.sleep(w), which may last longer than asked by over
Slept(w, over) == IF w > 0 THEN w + over ELSE 0

\* _sleep_if_needed()
_sleep_if_needed(lim, over) ==
    [lim EXCEPT !.now = lim.now + Slept(Wait(lim.now - lim.last_ts, MinDelay), over),
                !.last_ts = lim.now + Slept(Wait(lim.now - lim.last_ts, MinDelay), over)]

\* _fetch(url): the limiter, then requests.get, which takes took
Requested(lim, called, took) ==
    [lim EXCEPT !.now = lim.last_ts + took,
                !.calls = Append(@, called),
                !.starts = Append(@, lim.last_ts)]

WechatFetched(lim, over, took) == Requested(_sleep_if_needed(lim, over), lim.now, took)

MaxTicks == 14
MaxFetches == 3

\* the crawler is constructed at time 100
InitWechat ==
    /\ FnIdle /\ StoreIdle
    /\ pc = "idle" /\ call = NoCall /\ domains = <<>> /\ di = 0
    /\ resolved = [raw |-> <<>>, discovered |-> <<>>]
    /\ items = <<>> /\ results = <<>> /\ seen_urls = {} /\ hits = 0
    /\ limiter = NewLimiter(100)

\* time passes between two fetches (parsing, the date filter)
Tick ==
    /\ limiter.now < 100 + MaxTicks
    /\ limiter' = [limiter EXCEPT !.now = @ + 1]
    /\ UNCHANGED <<fnvars, storevars, pc, call, resolved, domains, di, items, results,
                   seen_urls, hits>>

\* _fetch(url): a page, or None for a status other than 200 and for an exception
CallWechatFetch ==
    /\ Len(limiter.starts) < MaxFetches
    /\ \E u \in WechatPool, over \in {0, 1}, took \in {0, 2}, html \in {"<html>", ""} :
        /\ WechatFetched(limiter, over, took).now <= 100 + MaxTicks
        /\ fn' = "wechat_fetch" /\ arg' = u /\ ret' = html
        /\ limiter' = WechatFetched(limiter, over, took)
    /\ UNCHANGED <<storevars, pc, call, resolved, domains, di, items, results,
                   seen_urls, hits>>

NextWechat == Tick \/ CallWechatFetch

SpecWechat == InitWechat /\ [][NextWechat]_vars

(***************************************************************************)
(* storage/sqlite_store.py: the tables under the calls of the store        *)
(***************************************************************************)

\* ml_state without its row, as in a database init_db has not run on
NoRow == <<>>

\* the row init_db inserts: (1, 'nb', 0.70, 0, now)
DefaultMlState == [model |-> "nb", threshold |-> 70, active |-> 0]

\* INSERT OR REPLACE in the place of INSERT OR IGNORE
init_db_replace(ms) == DefaultMlState

\* init_db on ml_state: CREATE TABLE IF NOT EXISTS leaves every table as it
\* is, and INSERT OR IGNORE adds the row with id 1 when there is none
init_db(ms) == IF ms = NoRow THEN DefaultMlState ELSE ms

\* get_ml_state: the row, and the defaults without a row
get_ml_state(ms) ==
    IF ms = NoRow THEN [model |-> "nb", threshold |-> 70, active |-> 0]
    ELSE [model |-> ms.model, threshold |-> ms.threshold, active |-> ms.active]

\* DELETE and INSERT in the place of INSERT
add_training_sample_replace(td, text, label) == <<[text |-> text, label |-> label]>>

\* add_training_sample: INSERT of one row
add_training_sample(td, text, label) == Append(td, [text |-> text, label |-> label])

MaxRows == 2

CallInitDb ==
    /\ fn' = "init_db" /\ arg' = <<>> /\ ret' = <<>>
    /\ ml_state' = init_db(ml_state)
    /\ UNCHANGED <<crawlvars, site_mapping, crawl_results, training_data, logvars>>

CallGetMlState ==
    /\ fn' = "get_ml_state" /\ arg' = <<>>
    /\ ret' = get_ml_state(ml_state)
    /\ UNCHANGED <<crawlvars, storevars>>

CallAddTrainingSample ==
    /\ Len(training_data) < MaxRows
    /\ \E label \in {1} :
        /\ fn' = "add_training_sample"
        /\ arg' = [text |-> "julong bay opens", label |-> label]
        /\ ret' = <<>>
        /\ training_data' = add_training_sample(training_data, "julong bay opens", label)
    /\ UNCHANGED <<crawlvars, ml_state, site_mapping, crawl_results, logvars>>

CallRecordMlRun ==
    /\ Len(ml_runs) < MaxRuns
    /\ fn' = "record_ml_run"
    /\ arg' = [model |-> "nb", f1 |-> <<1, 2>>]
    /\ ret' = <<>>
    /\ ml_runs' = record_ml_run(ml_runs, "nb", <<1, 2>>, <<1, 2>>, <<1, 2>>, 16, 4)
    /\ UNCHANGED <<crawlvars, ml_state, site_mapping, crawl_results, training_data, tx,
                   passed>>

CallAddSiteMapping ==
    /\ \E domain \in {"dayoo.com", "gzdaily.dayoo.com"} :
        /\ fn' = "add_site_mapping"
        /\ arg' = [name |-> "dayoo", domain |-> domain]
        /\ ret' = <<>>
        /\ site_mapping' = add_site_mapping(site_mapping, "dayoo", domain)
    /\ UNCHANGED <<crawlvars, ml_state, crawl_results, training_data, logvars>>

\* a reviewed item with a text and one without
StoreItems ==
    {[title |-> "city notice", url |-> UrlNotice, excerpt |-> "",
      predicted_label |-> 1, human_label |-> 0],
     [title |-> "", url |-> UrlBayApp, excerpt |-> " ", predicted_label |-> 0]}

\* save_review_results on tables that hold rows already
CallSaveReviewResultsAgain ==
    /\ Len(crawl_results) < MaxRows
    /\ \E its \in Batches(StoreItems, 1) :
        /\ fn' = "save_review_results"
        /\ arg' = [run_id |-> "run1", items |-> its, keywords |-> "julong",
                   media_names |-> "dayoo"]
        /\ Saved(save_review_results(crawl_results, training_data, 0, "run1", its,
                                     "julong", "dayoo"))
    /\ UNCHANGED <<crawlvars, ml_state, site_mapping, logvars>>

NextStore ==
    \/ CallInitDb
    \/ CallSetMlState
    \/ CallGetMlState
    \/ CallAddTrainingSample
    \/ CallSaveReviewResultsAgain
    \/ CallRecordMlRun
    \/ CallAddSiteMapping

SpecStore == InitFn /\ [][NextStore]_vars

(***************************************************************************)
(* storage/sqlite_store.py: save_review_results statement by statement, on *)
(* the connections of concurrent requests.  tx maps each connection that   *)
(* runs a call to its items, the number of items done, and the rows and    *)
(* samples it has inserted and not committed; crawl_results and            *)
(* training_data hold what is committed.                                   *)
(***************************************************************************)

\* every statement committed as it is executed (isolation_level None)
Autocommit_on == TRUE

\* sqlite3.connect(_DB_PATH) with the default isolation_level: an INSERT
\* opens a transaction that lasts until commit or rollback
Autocommit == FALSE

\* int(v) of a string: ValueError unless it is digits within whitespace
IntParses(v) == Strip(v) # "" /\ AllDigits(Strip(v))

\* the item with int(predicted_label) in the place of the label
Numbered(a) == [a EXCEPT !.predicted_label = ToInt(Strip(@))]

\* items as a request body carries them: labels are strings
TxItems ==
    {[title |-> "julong bay opens", url |-> UrlBay, excerpt |-> "julong bay park",
      predicted_label |-> " 1 "],
     [title |-> "city notice", url |-> UrlNotice, excerpt |-> "",
      predicted_label |-> "yes"]}

MaxBatch == 2
Conns == {1, 2}
RunOf(c) == IF c = 1 THEN "run1" ELSE "run2"

\* with _conn() as con: a call starts on a connection of its own; the calls
\* start while nothing is committed, and run on while others commit
OpenTx(c, its) ==
    c :> [run_id |-> RunOf(c), items |-> its, done |-> 0, rows |-> <<>>, samples |-> <<>>]

\* the connection is done with
CloseTx(t, c) == [d \in DOMAIN t \ {c} |-> t[d]]

\* another connection holds the write lock: it has inserted and not committed
Locked(t, c) == \E d \in DOMAIN t \ {c} : t[d].rows # <<>>

\* the rows of the items of a call
RECURSIVE NumberedAll(_)
NumberedAll(its) ==
    IF its = <<>> THEN <<>> ELSE <<Numbered(Head(its))>> \o NumberedAll(Tail(its))

TxBegin ==
    /\ crawl_results = <<>>
    /\ \E c \in Conns \ DOMAIN tx, its \in Batches(TxItems, MaxBatch) :
        tx' = tx @@ OpenTx(c, its)
    /\ UNCHANGED <<fnvars, crawlvars, ml_state, site_mapping, crawl_results, training_data,
                   ml_runs, passed>>

\* the call of connection c ends with an exception: the with block rolls back
TxRaise(c) ==
    /\ fn' = "save_review_results"
    /\ arg' = [run_id |-> tx[c].run_id, items |-> tx[c].items]
    /\ ret' = Raises
    /\ tx' = CloseTx(tx, c)

\* the row and the sample of the next item of connection c
TxRow(t) == ReviewRow(t.run_id, Numbered(t.items[t.done + 1]), "julong", "dayoo")

\* one pass of the loop: int() of the label, the INSERT of the row, the
\* INSERT of the sample; the INSERT fails with "database is locked" when
\* another connection holds the write lock until the busy timeout
TxItem ==
    \E c \in DOMAIN tx :
        /\ tx[c].done < Len(tx[c].items)
        /\ IF ~IntParses(tx[c].items[tx[c].done + 1].predicted_label)
           THEN TxRaise(c) /\ UNCHANGED <<crawl_results, training_data>>
           ELSE IF Locked(tx, c)
           THEN TxRaise(c) /\ UNCHANGED <<crawl_results, training_data>>
           ELSE IF Autocommit
           THEN /\ crawl_results' = Append(crawl_results, TxRow(tx[c]))
                /\ training_data' = training_data \o SampleOf(TxRow(tx[c]))
                /\ tx' = [tx EXCEPT ![c].done = @ + 1]
                /\ UNCHANGED fnvars
           ELSE /\ tx' = [tx EXCEPT ![c].done = @ + 1,
                                    ![c].rows = Append(@, TxRow(tx[c])),
                                    ![c].samples = @ \o SampleOf(TxRow(tx[c]))]
                /\ UNCHANGED <<fnvars, crawl_results, training_data>>
        /\ UNCHANGED <<crawlvars, ml_state, site_mapping, ml_runs, passed>>

\* con.commit() and return cnt
TxCommit ==
    \E c \in DOMAIN tx :
        /\ tx[c].done = Len(tx[c].items)
        /\ crawl_results' = crawl_results \o tx[c].rows
        /\ training_data' = training_data \o tx[c].samples
        /\ fn' = "save_review_results"
        /\ arg' = [run_id |-> tx[c].run_id, items |-> tx[c].items]
        /\ ret' = Returns(tx[c].done)
        /\ tx' = CloseTx(tx, c)
        /\ UNCHANGED <<crawlvars, ml_state, site_mapping, ml_runs, passed>>

NextTx == TxBegin \/ TxItem \/ TxCommit

SpecTx == InitFn /\ [][NextTx]_vars

(***************************************************************************)
(* C21: a crawl with keywords works on a domain list that is never empty:  *)
(* the resolved domains without the empty ones, each once, in the order    *)
(* they were first seen; the domains discovered by keyword search when no  *)
(* media name is given or the resolution gave nothing; the single          *)
(* no-domain entry when that gave nothing either.  For the no-domain entry *)
(* Channel 1 runs (keyword-only) and Channel 2 is skipped.                 *)
(***************************************************************************)
FirstAt(s, x) == CHOOSE i \in 1..Len(s) : s[i] = x /\ \A j \in 1..(i - 1) : s[j] # x

InFirstSeenOrder(raw, ds) ==
    /\ \A i \in 1..Len(ds) : ds[i] # "" /\ \E j \in 1..Len(raw) : raw[j] = ds[i]
    /\ \A j \in 1..Len(raw) : raw[j] # "" => \E i \in 1..Len(ds) : ds[i] = raw[j]
    /\ \A i, j \in 1..Len(ds) : i < j =>
          ds[i] # ds[j] /\ FirstAt(raw, ds[i]) < FirstAt(raw, ds[j])

DomainListAsLookedUp ==
    (pc \notin {"start", "idle"} /\ call.keywords # <<>>) =>
        /\ domains # <<>>
        /\ IF \E j \in 1..Len(resolved.raw) : resolved.raw[j] # ""
           THEN InFirstSeenOrder(resolved.raw, domains)
           ELSE IF resolved.discovered # <<>> THEN domains = resolved.discovered
           ELSE domains = <<"">>

NoDomainEntry ==
    /\ (pc = "ch1" /\ domains[di] = "") => (pc' # "ch1" => pc' = "filter")
    /\ (pc = "ch2" /\ domains[di] = "") =>
          UNCHANGED <<items, results, seen_urls, hits>>

C21_DomainListNeverEmpty == []DomainListAsLookedUp /\ [][NoDomainEntry]_vars

C21_Witness ==
    /\ pc = "wechat" /\ call.media_names = <<"gzrb", "dayoo">>
    /\ resolved.raw = <<"dayoo.com", "gzdaily.dayoo.com", "dayoo.com">>
    /\ domains = <<"dayoo.com", "gzdaily.dayoo.com">>
    /\ Len(results) >= 2

(***************************************************************************)
(* C22: for a candidate URL with a date in its path, PatternCrawler.crawl  *)
(* takes that date as the date of the URL; it skips the candidate exactly  *)
(* when a date range is active and the date lies outside it, and a         *)
(* candidate whose date lies inside the range is fetched and, when the     *)
(* fetch succeeds, returned with that date.                                *)
(***************************************************************************)
C22_UrlDateShortCircuit ==
    (/\ fn = "pattern_crawl" /\ DateUrl(arg.url) # ""
     /\ BoundOk(arg.start_date) /\ BoundOk(arg.end_date)) =>
        IF /\ Ranged(arg.start_date, arg.end_date)
           /\ ~Inside(DateUrl(arg.url), arg.start_date, arg.end_date)
        THEN ret = Skip
        ELSE fetch(arg.url).ok =>
                (IsItem(ret) /\ ret.item.date = DateUrl(arg.url))

(***************************************************************************)
(* C23: every record of the list that crawl returns for a non-empty list   *)
(* of keywords carries itself a title of at least 6 characters, an excerpt *)
(* of at least 30 characters, and a requested keyword in its title or its  *)
(* excerpt: a record that reached the relevance filter with an empty title *)
(* or excerpt was filled by the one fetch before it was judged.            *)
(***************************************************************************)
C23_ReturnedRecordsAreFilled ==
    (pc = "done" /\ call.keywords # <<>>) =>
        \A k \in 1..Len(results) :
            /\ Len(Strip(Get(results[k], "title"))) >= 6
            /\ Len(Strip(Get(results[k], "excerpt"))) >= 30
            /\ \E i \in 1..Len(call.keywords) :
                  /\ call.keywords[i] # ""
                  /\ \/ Contains(Get(results[k], "title"), call.keywords[i])
                     \/ Contains(Get(results[k], "excerpt"), call.keywords[i])

(***************************************************************************)
(* C24: the persisted ML state is active only after an evaluation whose F1 *)
(* cleared the threshold: in no state reached by calls of train_and_eval   *)
(* and of the store is the state active without an earlier train_and_eval  *)
(* result with pass_gate true for the model of the state.                  *)
(***************************************************************************)
C24_ActiveOnlyAfterPassedGate == ml_state.active = 1 => ml_state.model \in passed

(***************************************************************************)
(* C25: once init_db has run, under any sequence of init_db, set_ml_state  *)
(* and get_ml_state (and the other calls of the store) the ML state table  *)
(* holds its one row; get_ml_state returns the values of that row, which   *)
(* are the defaults until a set_ml_state writes it and the arguments of    *)
(* the most recent set_ml_state after; a repeated init_db leaves the row.  *)
(***************************************************************************)
MlStateRowKept ==
    /\ fn' = "get_ml_state" =>
          /\ ret' = [model |-> ml_state.model, threshold |-> ml_state.threshold,
                     active |-> ml_state.active]
          /\ ml_state' = ml_state
    /\ fn' = "init_db" => ml_state' = ml_state
    /\ ml_state' # ml_state =>
          /\ fn' = "set_ml_state"
          /\ ml_state' = [model |-> arg'.model, threshold |-> arg'.threshold,
                          active |-> IF arg'.active THEN 1 ELSE 0]

C25_MlStateSingleton ==
    /\ ml_state = DefaultMlState
    /\ [](ml_state # NoRow)
    /\ [][MlStateRowKept]_vars

C25_Witness ==
    /\ fn = "init_db"
    /\ ml_state = [model |-> "lr", threshold |-> 100, active |-> 1]

(***************************************************************************)
(* C26: the table of training samples and the log of ML runs only grow:    *)
(* under add_training_sample, save_review_results, record_ml_run,          *)
(* set_ml_state, init_db and the writes of the resolver cache every row    *)
(* they hold stays as it is and where it is, so their row counts never     *)
(* decrease.                                                               *)
(***************************************************************************)
IsPrefix(s, t) == Len(s) <= Len(t) /\ \A i \in 1..Len(s) : t[i] = s[i]

C26_AppendOnlyTables ==
    [][IsPrefix(training_data, training_data') /\ IsPrefix(ml_runs, ml_runs')]_vars

C26_Witness ==
    /\ fn = "save_review_results"
    /\ Len(training_data) = 3
    /\ training_data[1].text = "julong bay opens"
    /\ Len(ml_runs) = 1
    /\ site_mapping # <<>>

(***************************************************************************)
(* C27: _collect_links returns at most rule.max_links URLs and no URL      *)
(* twice, and once the list holds max_links URLs it fetches nothing more:  *)
(* no seed, node page, list page or date directory.                        *)
(***************************************************************************)
IsAdd(e) == e[1] = "add"
IsFetch(e) == e[1] = "fetch"

C27_CollectLinksCapped ==
    fn = "_collect_links" =>
        /\ Len(ret.out) <= arg.rule.max_links
        /\ \A i, j \in 1..Len(ret.out) : ret.out[i] = ret.out[j] => i = j
        /\ \A i \in 1..Len(ret.log) :
              Len(SelectSeq(SubSeq(ret.log, 1, i), IsAdd)) >= arg.rule.max_links =>
                  \A j \in (i + 1)..Len(ret.log) : ~IsFetch(ret.log[j])

C27_Witness ==
    /\ fn = "_collect_links"
    /\ arg.rule.max_links = 2 /\ Len(ret.out) = 2
    /\ arg.rule.enable_node_mode /\ arg.down = {SeedGz}
    /\ ret.out = <<UrlNotice, UrlBroken>>
    /\ Len(SelectSeq(ret.log, IsFetch)) = 2

(***************************************************************************)
(* C28: within one WechatCrawler any two consecutive page fetches start at *)
(* least min_delay (0.6 s) apart, whether or not the earlier one           *)
(* succeeded; the first fetch starts at the time it is called.             *)
(***************************************************************************)
C28_FetchesSpaced ==
    /\ \A k \in 1..(Len(limiter.starts) - 1) :
          limiter.starts[k + 1] - limiter.starts[k] >= MinDelay
    /\ Len(limiter.starts) >= 1 => limiter.starts[1] = limiter.calls[1]

C28_Witness ==
    /\ Len(limiter.starts) = 2
    /\ fn = "wechat_fetch"
    /\ limiter.calls[2] - limiter.starts[1] = 2
    /\ limiter.starts[2] - limiter.starts[1] = MinDelay

(***************************************************************************)
(* C29: a URL that is marked as seen and has no record in the result list  *)
(* (as a URL of Channel 1 is once the date filter has rejected its record) *)
(* stays marked and stays out of the list in every later step, so it is    *)
(* not in the returned list even when Channel 2 or Channel W finds it      *)
(* again.                                                                  *)
(***************************************************************************)
UrlsOf(res) == {Get(res[k], "url") : k \in 1..Len(res)}
Rejected == seen_urls \ UrlsOf(results)

C29_RejectedUrlStaysOut ==
    [][Rejected \subseteq seen_urls' \ UrlsOf(results')]_vars

C29_Witness ==
    /\ pc = "wechat"
    /\ domains = <<"dayoo.com">>
    /\ Ranged(call.start_date, call.end_date)
    /\ \E k \in 1..Len(items) : Get(items[k], "url") \in Rejected

(***************************************************************************)
(* C30: save_review_results is all-or-nothing, also when the calls of      *)
(* concurrent requests interleave: a step that is not the end of a call    *)
(* leaves the committed tables as they are; a call that ends with an       *)
(* exception leaves them as they are; a call that returns adds, in that    *)
(* one step, the row of each of its items once and the sample of each item *)
(* with a text once.                                                       *)
(***************************************************************************)
SavedWhole(c) ==
    save_review_results(crawl_results, training_data, 0, tx[c].run_id,
                        NumberedAll(tx[c].items), "julong", "dayoo")

AllOrNothing ==
    /\ DOMAIN tx \subseteq DOMAIN tx' =>
          crawl_results' = crawl_results /\ training_data' = training_data
    /\ \A c \in DOMAIN tx \ DOMAIN tx' :
          IF ret'.exc
          THEN crawl_results' = crawl_results /\ training_data' = training_data
          ELSE /\ crawl_results' = SavedWhole(c).crawl_results
               /\ training_data' = SavedWhole(c).training_data
               /\ ret'.val = Len(tx[c].items)

C30_SaveReviewAtomic == [][AllOrNothing]_vars

C30_Witness ==
    /\ fn = "save_review_results" /\ ret = Raises
    /\ arg.run_id = "run1" /\ Len(arg.items) = 2
    /\ IntParses(arg.items[1].predicted_label)
    /\ ~IntParses(arg.items[2].predicted_label)
    /\ Len(crawl_results) = 2
    /\ \A k \in 1..2 : crawl_results[k].run_id = "run2"

=============================================================================
